---- MODULE Spec2Model ----
(***************************************************************************)
(* Model of the insight engine of the finance tracker: the ai-insights     *)
(* edge function (src/unnamed/part_000) and the in-process fallback        *)
(* generateLocalInsights of AIAssistant (src/src/components/Settings.tsx). *)
(*                                                                         *)
(* Amounts are integer-valued JavaScript numbers, so sums and differences  *)
(* of amounts are exact; every division and every multiplication by a      *)
(* non-integer is carried out in IEEE-754 binary64, round to nearest, ties *)
(* to even, as the JavaScript operators / and * do.                        *)
(*                                                                         *)
(* After the engine come the isolate that serves it, the useTransactions   *)
(* hook with the components that call it, the progress of a goal, the      *)
(* deletion of the account and the submit handlers of the three forms,     *)
(* each with a specification of its own over the same variables.           *)
(***************************************************************************)
EXTENDS Integers, Sequences, FiniteSets, TLC

(***************************************************************************)
(* Small helpers.                                                          *)
(***************************************************************************)
Pow2(n) == 2 ^ n

Abs(n) == IF n < 0 THEN -n ELSE n

Digits == <<"0", "1", "2", "3", "4", "5", "6", "7", "8", "9">>

\* Number.prototype.toString of a non-negative integer.
RECURSIVE NatToString(_)
NatToString(n) ==
  IF n < 10 THEN Digits[n + 1] ELSE NatToString(n \div 10) \o Digits[(n % 10) + 1]

(***************************************************************************)
(* IEEE-754 binary64.  A finite non-zero double is sign * M * 2^e with     *)
(* 2^52 <= M < 2^53; M is kept as four limbs of LimbBits bits, least       *)
(* significant first.  Zero has all limbs 0; NaN is its own value.         *)
(***************************************************************************)
LimbBits == 14
Limb == Pow2(LimbBits)
MantBits == 53

F64NaN == [nan |-> TRUE, neg |-> FALSE, m |-> <<0, 0, 0, 0>>, e |-> 0]
F64Zero == [nan |-> FALSE, neg |-> FALSE, m |-> <<0, 0, 0, 0>>, e |-> 0]

IsNaN(x) == x.nan
IsZero(x) == ~x.nan /\ x.m = <<0, 0, 0, 0>>

\* Limb i (0-based) of the limb sequence p, 0 beyond its end.
LimbAt(p, i) == IF i + 1 <= Len(p) THEN p[i + 1] ELSE 0

\* The n <= LimbBits bits of p that start at bit position pos.
BitsAt(p, pos, n) ==
  LET q == pos \div LimbBits
      r == pos % LimbBits
  IN ((LimbAt(p, q) \div Pow2(r)) + (LimbAt(p, q + 1) % Pow2(r)) * Pow2(LimbBits - r))
       % Pow2(n)

\* TRUE iff some bit of p below position pos is set.
AnyBitBelow(p, pos) ==
  \/ \E i \in 0..((pos \div LimbBits) - 1) : LimbAt(p, i) # 0
  \/ LimbAt(p, pos \div LimbBits) % Pow2(pos % LimbBits) # 0

\* The 53 bits of p from bit position pos upwards, as a mantissa.
MantAt(p, pos) ==
  <<BitsAt(p, pos, LimbBits), BitsAt(p, pos + LimbBits, LimbBits),
    BitsAt(p, pos + 2 * LimbBits, LimbBits),
    BitsAt(p, pos + 3 * LimbBits, MantBits - 3 * LimbBits)>>

\* m + 1 on limbs, with carry.
MantInc(m) ==
  IF m[1] + 1 < Limb THEN <<m[1] + 1, m[2], m[3], m[4]>>
  ELSE IF m[2] + 1 < Limb THEN <<0, m[2] + 1, m[3], m[4]>>
  ELSE IF m[3] + 1 < Limb THEN <<0, 0, m[3] + 1, m[4]>>
  ELSE <<0, 0, 0, m[4] + 1>>

\* Round to nearest, ties to even: m is the truncated mantissa, round the
\* first discarded bit, sticky whether any later discarded bit is set.
F64Round(neg, m, e, round, sticky) ==
  LET up == round = 1 /\ (sticky \/ m[1] % 2 = 1)
      m1 == IF up THEN MantInc(m) ELSE m
      top == Pow2(MantBits - 3 * LimbBits)
  IN IF m1[4] = top
       THEN [nan |-> FALSE, neg |-> neg, m |-> <<0, 0, 0, top \div 2>>, e |-> e + 1]
       ELSE [nan |-> FALSE, neg |-> neg, m |-> m1, e |-> e]

\* The exponent s with 2^s <= a / b < 2^(s+1), for integers a, b > 0.
RECURSIVE Log2Floor(_, _)
Log2Floor(a, b) ==
  IF a < b THEN Log2Floor(2 * a, b) - 1
  ELSE IF a >= 2 * b THEN Log2Floor(a, 2 * b) + 1
  ELSE 0

\* a / b for integer-valued doubles a and b with |a|, |b| < 2^14, by long
\* division in base 2^LimbBits (0/0 is NaN; b = 0 otherwise does not occur:
\* every divisor in the program is a count or a total that is 0 only
\* together with its dividend, or is guarded).
F64Div(a, b) ==
  IF b = 0 THEN F64NaN
  ELSE IF a = 0 THEN F64Zero
  ELSE
    LET neg == (a < 0) # (b < 0)
        s == Log2Floor(Abs(a), Abs(b))
        \* num / den in [1/2, 1): its binary fraction is the mantissa
        num == IF s < 0 THEN Abs(a) * Pow2(-s) ELSE Abs(a)
        den == 2 * (IF s > 0 THEN Abs(b) * Pow2(s) ELSE Abs(b))
        n4 == num * Pow2(MantBits - 3 * LimbBits)
        n3 == (n4 % den) * Limb
        n2 == (n3 % den) * Limb
        n1 == (n2 % den) * Limb
        nr == (n1 % den) * 2
    IN F64Round(neg, <<n1 \div den, n2 \div den, n3 \div den, n4 \div den>>,
                s - (MantBits - 1), nr \div den, nr % den # 0)

\* The double of an integer literal.
F64FromInt(n) == F64Div(n, 1)

\* Column k of the schoolbook product of two four-limb mantissas.
MulColumn(x, y, k) ==
  LET term(i) == IF k - i >= 0 /\ k - i <= 3 THEN x[i + 1] * y[k - i + 1] ELSE 0
  IN term(0) + term(1) + term(2) + term(3)

\* Carry propagation over the columns 0..7 of a product.
RECURSIVE MulCarry(_, _, _, _)
MulCarry(x, y, k, carry) ==
  IF k = 8 THEN <<>>
  ELSE LET c == MulColumn(x, y, k) + carry
       IN <<c % Limb>> \o MulCarry(x, y, k + 1, c \div Limb)

\* x * y.
F64Mul(x, y) ==
  IF IsNaN(x) \/ IsNaN(y) THEN F64NaN
  ELSE IF IsZero(x) \/ IsZero(y) THEN F64Zero
  ELSE
    LET p == MulCarry(x.m, y.m, 0, 0)
        \* the product of two 53-bit mantissas has 105 or 106 bits
        shift == IF BitsAt(p, 2 * MantBits - 1, 1) = 1 THEN MantBits
                 ELSE MantBits - 1
    IN F64Round(x.neg # y.neg, MantAt(p, shift), x.e + y.e + shift,
                BitsAt(p, shift - 1, 1), AnyBitBelow(p, shift - 1))

\* Comparison of mantissas, most significant limb first: -1, 0 or 1.
MantCmp(a, b) ==
  IF a[4] # b[4] THEN (IF a[4] < b[4] THEN -1 ELSE 1)
  ELSE IF a[3] # b[3] THEN (IF a[3] < b[3] THEN -1 ELSE 1)
  ELSE IF a[2] # b[2] THEN (IF a[2] < b[2] THEN -1 ELSE 1)
  ELSE IF a[1] # b[1] THEN (IF a[1] < b[1] THEN -1 ELSE 1)
  ELSE 0

\* Comparison of the magnitudes of two finite doubles.
MagCmp(x, y) ==
  IF IsZero(x) /\ IsZero(y) THEN 0
  ELSE IF IsZero(x) THEN -1
  ELSE IF IsZero(y) THEN 1
  ELSE IF x.e # y.e THEN (IF x.e < y.e THEN -1 ELSE 1)
  ELSE MantCmp(x.m, y.m)

\* Comparison of two finite doubles.
F64Cmp(x, y) ==
  LET sx == IF IsZero(x) THEN 0 ELSE IF x.neg THEN -1 ELSE 1
      sy == IF IsZero(y) THEN 0 ELSE IF y.neg THEN -1 ELSE 1
  IN IF sx # sy THEN (IF sx < sy THEN -1 ELSE 1)
     ELSE IF sx >= 0 THEN MagCmp(x, y)
     ELSE MagCmp(y, x)

\* Mutant: a comparison with NaN counts as satisfied.
F64Gt_NaNHolds(x, y) == IsNaN(x) \/ IsNaN(y) \/ F64Cmp(x, y) = 1

\* x > y and x < y: false as soon as an operand is NaN.
F64Gt(x, y) == ~IsNaN(x) /\ ~IsNaN(y) /\ F64Cmp(x, y) = 1
F64Lt(x, y) == ~IsNaN(x) /\ ~IsNaN(y) /\ F64Cmp(x, y) = -1

\* Number.prototype.toFixed(f) for f in {1, 2} and |x| < 2^20: the integer n
\* with n / 10^f closest to |x|, the larger n on a tie, printed with f
\* decimals behind a "-" when x < 0.
ToFixed(x, f) ==
  IF IsNaN(x) THEN "NaN"
  ELSE
    LET scale == IF f = 1 THEN 10 ELSE 100
        p == MulCarry(x.m, <<scale, 0, 0, 0>>, 0, 0)
        t == -x.e
        n == IF IsZero(x) THEN 0
             ELSE BitsAt(p, t, LimbBits) + BitsAt(p, t + LimbBits, LimbBits) * Limb
                  + BitsAt(p, t - 1, 1)
        frac == n % scale
        pad == IF f = 2 /\ frac < 10 THEN "0" ELSE ""
    IN (IF x.neg /\ ~IsZero(x) THEN "-" ELSE "")
         \o NatToString(n \div scale) \o "." \o pad \o NatToString(frac)

(***************************************************************************)
(* Transactions.  A transaction carries the four fields the engine reads.  *)
(* A date string is kept as its parts around the separator "T", so that    *)
(* date.split('T')[0] is its first part.                                   *)
(***************************************************************************)
Types == {"income", "expense"}
Timeframes == {"week", "month", "year"}

\* Category labels are free text: two of the application's own
\* (TransactionForm offers them) and one that is a canonical array index.
\* No label of the model names a member of Object.prototype.
Categories == {"Food", "Transit", "7"}

\* The category strings that are canonical array indices, with their value.
ArrayIndex == ("7" :> 7)
IsArrayIndex(key) == key \in DOMAIN ArrayIndex

\* The calendar days of the model; the current month is June 2024.
DayKeys == <<"2024-05-31", "2024-06-01", "2024-06-02", "2024-06-03", "2024-06-04",
             "2024-06-05", "2024-06-06", "2024-06-07", "2024-06-08">>

\* The position of a day among DayKeys: day n is n - 2 days after 2024-06-01.
DayNumber(key) == CHOOSE n \in 1..Len(DayKeys) : DayKeys[n] = key

\* The date of the i-th day of the current month as the store returns it:
\* a date-only string on odd days, a UTC timestamp on even days.
DateOfDay(i) ==
  IF i % 2 = 1 THEN <<DayKeys[i + 1]>> ELSE <<DayKeys[i + 1], "09:30:00+00:00">>

LastMonthDate == <<DayKeys[1]>>

Tx(type, amount, category, date) ==
  [type |-> type, amount |-> amount, category |-> category, date |-> date]

\* Bounds of the input families.
MaxTx == 3
MaxDays == 6
MaxBalance == 6

\* General family: short lists, in any order, over expenses of every category
\* on the first of the month, a "Food" expense of last month, and incomes.
SmallAmounts == {1, 2}
GeneralTx ==
  {Tx("expense", a, c, DateOfDay(1)) : a \in SmallAmounts, c \in Categories}
    \cup {Tx("expense", 0, "Transit", DateOfDay(1)), Tx("expense", 1, "Food", LastMonthDate)}
    \cup {Tx("income", a, "Salary", DateOfDay(1)) : a \in {1, 5}}
    \cup {Tx("income", 1, "Food", DateOfDay(2))}

RECURSIVE ListsUpTo(_, _)
ListsUpTo(S, n) ==
  IF n = 0 THEN {<<>>}
  ELSE LET shorter == ListsUpTo(S, n - 1)
       IN shorter \cup {Append(l, x) : l \in {k \in shorter : Len(k) = n - 1}, x \in S}

GeneralLists == ListsUpTo(GeneralTx, MaxTx)

\* Ledger family: one "Food" expense on each of the first k days of the
\* month, most recent day first, as the store orders them; the amounts of
\* one ledger are drawn from one of the sets of DayAmountSets.
DayAmountSets == {{0, 7}, {1, 3}}
LedgerLists ==
  UNION {{[i \in 1..k |-> Tx("expense", f[k + 1 - i], "Food", DateOfDay(k + 1 - i))] :
            f \in UNION {[1..k -> A] : A \in DayAmountSets}} : k \in 1..MaxDays}

\* Balance family: one income and one expense of the same day.
BalanceLists ==
  {<<Tx("income", a, "Salary", DateOfDay(1)), Tx("expense", b, "Food", DateOfDay(1))>> :
     a \in 0..MaxBalance, b \in 0..MaxBalance}

TxLists == GeneralLists \cup LedgerLists \cup BalanceLists

(***************************************************************************)
(* Plain JavaScript objects used as string-keyed accumulators, and arrays. *)
(* An object is the sequence of its own properties <<key, value>> in       *)
(* creation order.                                                         *)
(***************************************************************************)
Undefined == <<>>
Null == [null |-> TRUE]

\* A nullable string of the JSON response: <<s>> is the string s, <<>> is null.
JsonString(s) == <<s>>
JsonNull == <<>>

HasOwn(obj, key) == \E i \in 1..Len(obj) : obj[i][1] = key

\* Mutant: the accumulator is overwritten instead of added to.
Accumulate_Overwrite(acc, key, amount) ==
  IF \E i \in 1..Len(acc) : acc[i][1] = key
    THEN [i \in 1..Len(acc) |-> IF acc[i][1] = key THEN <<key, amount>> ELSE acc[i]]
    ELSE Append(acc, <<key, amount>>)

\* acc[key] = (acc[key] || 0) + amount on an object literal {}, for a key
\* that names no member of Object.prototype: acc[key] is the own property
\* or undefined.
Accumulate(acc, key, amount) ==
  IF HasOwn(acc, key)
    THEN [i \in 1..Len(acc) |->
            IF acc[i][1] = key THEN <<key, (IF acc[i][2] # 0 THEN acc[i][2] ELSE 0) + amount>>
            ELSE acc[i]]
    ELSE Append(acc, <<key, 0 + amount>>)

\* The predicates of the handler's array.filter calls.
IsIncome(t) == t.type = "income"
IsExpense(t) == t.type = "expense"

\* array.reduce((sum, t) => sum + t.amount, 0): the reduce from left to
\* right over arr[lo..hi] starting from sum, written by halves so that long
\* arrays do not nest deeply; the test on left has the first half reduced
\* before the second half starts.
RECURSIVE SumAmountsFrom(_, _, _, _)
SumAmountsFrom(sum, arr, lo, hi) ==
  IF lo > hi THEN sum
  ELSE IF lo = hi THEN sum + arr[lo].amount
  ELSE LET mid == (lo + hi) \div 2
           left == SumAmountsFrom(sum, arr, lo, mid)
       IN IF left \in Int THEN SumAmountsFrom(left, arr, mid + 1, hi) ELSE left

SumAmounts(arr) == SumAmountsFrom(0, arr, 1, Len(arr))

\* array.reduce((sum, val) => sum + val, 0)
RECURSIVE SumValues(_)
SumValues(arr) ==
  IF arr = <<>> THEN 0 ELSE SumValues(SubSeq(arr, 1, Len(arr) - 1)) + arr[Len(arr)]

\* The property order of Object.entries / keys / values: the canonical
\* array indices in ascending numeric order, then the other string keys in
\* creation order.
RECURSIVE IndexEntries(_)
IndexEntries(entries) ==
  IF entries = <<>> THEN <<>>
  ELSE LET least == CHOOSE i \in 1..Len(entries) :
                      \A j \in 1..Len(entries) :
                        ArrayIndex[entries[i][1]] <= ArrayIndex[entries[j][1]]
       IN <<entries[least]>>
            \o IndexEntries([i \in 1..(Len(entries) - 1) |->
                               IF i < least THEN entries[i] ELSE entries[i + 1]])

IsIndexEntry(e) == IsArrayIndex(e[1])
IsStringEntry(e) == ~IsArrayIndex(e[1])

ObjectEntries(obj) == IndexEntries(SelectSeq(obj, IsIndexEntry)) \o SelectSeq(obj, IsStringEntry)
ObjectValues(obj) == [i \in 1..Len(obj) |-> ObjectEntries(obj)[i][2]]
ObjectKeys(obj) == [i \in 1..Len(obj) |-> ObjectEntries(obj)[i][1]]

\* ([, a], [, b]) => b - a
\* Mutant: the comparator sorts ascending.
ByAmountDesc_Ascending(x, y) == x[2] - y[2]

ByAmountDesc(x, y) == y[2] - x[2]

\* ([a], [b]) => b.localeCompare(a), on ISO calendar dates, which compare as
\* the days they name.
ByDateDesc(x, y) == DayNumber(y[1]) - DayNumber(x[1])

Compare(cmp, x, y) == IF cmp = "amount" THEN ByAmountDesc(x, y) ELSE ByDateDesc(x, y)

\* Array.prototype.sort(cmp): a stable sort; an element moves in front of
\* another only where cmp(element, other) < 0.
RECURSIVE SortInsert(_, _, _)
SortInsert(sorted, x, cmp) ==
  IF sorted = <<>> THEN <<x>>
  ELSE IF Compare(cmp, x, Head(sorted)) < 0 THEN <<x>> \o sorted
  ELSE <<Head(sorted)>> \o SortInsert(Tail(sorted), x, cmp)

RECURSIVE Sort(_, _)
Sort(arr, cmp) ==
  IF arr = <<>> THEN <<>>
  ELSE SortInsert(Sort(SubSeq(arr, 1, Len(arr) - 1), cmp), arr[Len(arr)], cmp)

\* array[0]
First(arr) == IF arr = <<>> THEN Undefined ELSE arr[1]

\* array.slice(0, n)
Slice0(arr, n) == SubSeq(arr, 1, IF Len(arr) < n THEN Len(arr) ELSE n)

(***************************************************************************)
(* The ai-insights edge function: the values its handler computes from the *)
(* request body, named as in the source.                                   *)
(***************************************************************************)
\* Mutant: the income sum forgets the filter on type.
totalIncome_Unfiltered(txs) == SumAmounts(txs)

totalIncome(txs) == SumAmounts(SelectSeq(txs, IsIncome))

totalExpenses(txs) == SumAmounts(SelectSeq(txs, IsExpense))

\* Mutant: the difference is taken the other way round.
netIncome_Reversed(txs) == totalExpenses(txs) - totalIncome(txs)

netIncome(txs) == totalIncome(txs) - totalExpenses(txs)

\* .reduce((acc, t) => { acc[t.category] = (acc[t.category] || 0) + t.amount; return acc }, {})
RECURSIVE ReduceByCategoryFrom(_, _, _, _)
ReduceByCategoryFrom(acc, arr, lo, hi) ==
  IF lo > hi THEN acc
  ELSE IF lo = hi THEN Accumulate(acc, arr[lo].category, arr[lo].amount)
  ELSE LET mid == (lo + hi) \div 2
           left == ReduceByCategoryFrom(acc, arr, lo, mid)
       IN IF Len(left) > 0 THEN ReduceByCategoryFrom(left, arr, mid + 1, hi) ELSE left

ReduceByCategory(arr) == ReduceByCategoryFrom(<<>>, arr, 1, Len(arr))

\* Mutant: the reduce runs over every transaction, incomes included.
expensesByCategory_AllTypes(txs) == ReduceByCategory(txs)

expensesByCategory(txs) == ReduceByCategory(SelectSeq(txs, IsExpense))

topExpenseCategory(txs) == First(Sort(ObjectEntries(expensesByCategory(txs)), "amount"))

\* t.date.split('T')[0]
DatePortion(date) == date[1]

RECURSIVE ReduceByDateFrom(_, _, _, _)
ReduceByDateFrom(acc, arr, lo, hi) ==
  IF lo > hi THEN acc
  ELSE IF lo = hi THEN Accumulate(acc, DatePortion(arr[lo].date), arr[lo].amount)
  ELSE LET mid == (lo + hi) \div 2
           left == ReduceByDateFrom(acc, arr, lo, mid)
       IN IF Len(left) > 0 THEN ReduceByDateFrom(left, arr, mid + 1, hi) ELSE left

ReduceByDate(arr) == ReduceByDateFrom(<<>>, arr, 1, Len(arr))

dailyExpenses(txs) == ReduceByDate(SelectSeq(txs, IsExpense))

avgDailyExpense(txs) ==
  F64Div(SumValues(ObjectValues(dailyExpenses(txs))), Len(ObjectKeys(dailyExpenses(txs))))

\* Mutant: the recent window is the two greatest day keys.
recentExpenses_TwoDays(txs) ==
  LET recent == Slice0(Sort(ObjectEntries(dailyExpenses(txs)), "date"), 2)
  IN [i \in 1..Len(recent) |-> recent[i][2]]

recentExpenses(txs) ==
  LET recent == Slice0(Sort(ObjectEntries(dailyExpenses(txs)), "date"), 3)
  IN [i \in 1..Len(recent) |-> recent[i][2]]

recentAvg(txs) == F64Div(SumValues(recentExpenses(txs)), Len(recentExpenses(txs)))

\* The literal 1.2: the double nearest to 6/5.
TrendFactor == F64Div(6, 5)

\* recentAvg > avgDailyExpense * 1.2
TrendDetected(txs) == F64Gt(recentAvg(txs), F64Mul(avgDailyExpense(txs), TrendFactor))

\* (netIncome / totalIncome) * 100
savingsRate(txs) == F64Mul(F64Div(netIncome(txs), totalIncome(txs)), F64FromInt(100))

Insight(type, title, description, severity, action) ==
  [type |-> type, title |-> title, description |-> description,
   severity |-> severity, action_suggested |-> action]

TopCategoryInsight(top, timeframe) ==
  Insight("spending_pattern", "Top Expense Category",
          "Your highest expense category is " \o top[1] \o " with $"
            \o ToFixed(F64FromInt(top[2]), 2) \o " spent this " \o timeframe \o ".",
          "medium",
          "Consider setting a budget limit for " \o top[1] \o " to better control spending.")

\* Mutant: the overspend is printed without Math.abs.
BudgetAlertInsight_Signed(net, timeframe) ==
  Insight("budget_alert", "Spending Exceeds Income",
          "You've spent $" \o ToFixed(F64FromInt(net), 2)
            \o " more than you earned this " \o timeframe \o ".",
          "high",
          "Review your expenses and consider reducing spending in non-essential categories.")

BudgetAlertInsight(net, timeframe) ==
  Insight("budget_alert", "Spending Exceeds Income",
          "You've spent $" \o ToFixed(F64FromInt(Abs(net)), 2)
            \o " more than you earned this " \o timeframe \o ".",
          "high",
          "Review your expenses and consider reducing spending in non-essential categories.")

\* Mutant: a rate of exactly 20 still gets the advice to save more.
SavingTipAction_OrEqual(rate) ==
  IF ~F64Gt(rate, F64FromInt(20))
    THEN "Consider increasing your savings rate to 20% for better financial health."
    ELSE "Keep up the excellent saving habits!"

SavingTipAction(rate) ==
  IF F64Lt(rate, F64FromInt(20))
    THEN "Consider increasing your savings rate to 20% for better financial health."
    ELSE "Keep up the excellent saving habits!"

\* Mutant: the advice is only given for the timeframe 'month'.
SavingTipInsight_MonthOnly(rate, timeframe) ==
  Insight("saving_tip", "Great Saving Progress",
          "You saved " \o ToFixed(rate, 1) \o "% of your income this " \o timeframe \o "!",
          "low",
          IF timeframe = "month" THEN SavingTipAction(rate)
          ELSE "Keep up the excellent saving habits!")

SavingTipInsight(rate, timeframe) ==
  Insight("saving_tip", "Great Saving Progress",
          "You saved " \o ToFixed(rate, 1) \o "% of your income this " \o timeframe \o "!",
          "low", SavingTipAction(rate))

TrendInsight ==
  Insight("spending_pattern", "Increased Spending Detected",
          "Your recent daily spending is 20% higher than your average.",
          "medium",
          "Review recent transactions and identify areas where you can reduce spending.")

\* if (topExpenseCategory): an entry is an array, which is truthy.
\* Mutant: the rule also asks for a non-zero amount.
TopCategoryRule_Positive(top) == top # Undefined /\ top[2] # 0

TopCategoryRule(top) == top # Undefined

\* Mutant: the alert also fires on a balanced budget.
BudgetAlertRule_OrEqual(net) == net <= 0

\* if (netIncome < 0)
BudgetAlertRule(net) == net < 0

\* if (netIncome > 0)
\* Mutant: the tip is also pushed at net income 0.
SavingTipRule_OrEqual(net) == net >= 0

SavingTipRule(net) == net > 0

\* Mutant: the high-severity alert is pushed before the other insights.
EngineInsights_AlertFirst(txs, timeframe) ==
  LET top == topExpenseCategory(txs)
      net == netIncome(txs)
  IN (IF BudgetAlertRule(net) THEN <<BudgetAlertInsight(net, timeframe)>> ELSE <<>>)
     \o (IF TopCategoryRule(top) THEN <<TopCategoryInsight(top, timeframe)>> ELSE <<>>)
     \o (IF SavingTipRule(net) THEN <<SavingTipInsight(savingsRate(txs), timeframe)>> ELSE <<>>)
     \o (IF TrendDetected(txs) THEN <<TrendInsight>> ELSE <<>>)

\* The insights array after the four rules, in the order of the pushes.
EngineInsights(txs, timeframe) ==
  LET top == topExpenseCategory(txs)
      net == netIncome(txs)
  IN (IF TopCategoryRule(top) THEN <<TopCategoryInsight(top, timeframe)>> ELSE <<>>)
     \o (IF BudgetAlertRule(net) THEN <<BudgetAlertInsight(net, timeframe)>> ELSE <<>>)
     \o (IF SavingTipRule(net) THEN <<SavingTipInsight(savingsRate(txs), timeframe)>> ELSE <<>>)
     \o (IF TrendDetected(txs) THEN <<TrendInsight>> ELSE <<>>)

\* Mutant: the summary's savings rate without the totalIncome > 0 guard.
SavingsRateText_Unguarded(txs) == ToFixed(savingsRate(txs), 1)

\* totalIncome > 0 ? ((netIncome / totalIncome) * 100).toFixed(1) : '0'
SavingsRateText(txs) ==
  IF totalIncome(txs) > 0 THEN ToFixed(savingsRate(txs), 1) ELSE "0"

Summary(txs) ==
  LET top == topExpenseCategory(txs)
  IN [totalIncome |-> totalIncome(txs),
      totalExpenses |-> totalExpenses(txs),
      netIncome |-> netIncome(txs),
      topExpenseCategory |-> IF TopCategoryRule(top) THEN JsonString(top[1]) ELSE JsonNull,
      savingsRate |-> SavingsRateText(txs)]

\* The response to a well-formed request body.
Serve(body) ==
  [status |-> 200,
   insights |-> EngineInsights(body.transactions, body.timeframe),
   summary |-> Summary(body.transactions)]

(***************************************************************************)
(* Request bodies.  A body is described by an object { transactions,       *)
(* timeframe } of the expected shape and a defect: "none" for that object  *)
(* itself, else what is taken from it: the JSON syntax, the transactions   *)
(* property, the array (a string is sent in its place), the timeframe      *)
(* property, or one property of the first transaction.  A transaction      *)
(* without amount is not part of the model.                                *)
(***************************************************************************)
Defects ==
  {"none", "unparsable", "noTransactions", "transactionsNotArray", "noTimeframe",
   "noType", "noCategory", "noDate"}

Body(defect, txs, timeframe) ==
  [defect |-> defect, transactions |-> txs, timeframe |-> timeframe]

WellFormedBodies(txs) == {Body("none", txs, tf) : tf \in Timeframes}

\* Bound: the longest list a malformed body is made from.
MaxMalformedTx == 2

MalformedBodies(txs) ==
  IF Len(txs) > MaxMalformedTx THEN {}
  ELSE {Body(d, txs, "month") :
          d \in {"unparsable", "noTransactions", "transactionsNotArray", "noTimeframe"}}
         \cup (IF txs = <<>> THEN {}
               ELSE {Body(d, txs, "month") : d \in {"noType", "noCategory", "noDate"}})

Bodies(txs) == WellFormedBodies(txs) \cup MalformedBodies(txs)

\* The statements of the try block that throw: req.json() on text that is
\* not JSON, transactions.filter on a value without that method, and
\* t.date.split on an expense without date.
Throws(body) ==
  \/ body.defect \in {"unparsable", "noTransactions", "transactionsNotArray"}
  \/ body.defect = "noDate" /\ IsExpense(Head(body.transactions))

\* The transactions as the handler's property reads see them: without type
\* a transaction passes neither filter, without category an expense is
\* accumulated under the key "undefined".
ReadTransactions(body) ==
  CASE body.defect = "noType" -> Tail(body.transactions)
    [] body.defect = "noCategory" ->
         <<[Head(body.transactions) EXCEPT !.category = "undefined"]>>
           \o Tail(body.transactions)
    [] OTHER -> body.transactions

\* `${timeframe}` prints a missing timeframe as "undefined".
ReadTimeframe(body) ==
  IF body.defect = "noTimeframe" THEN "undefined" ELSE body.timeframe

\* The response of the catch block.
ErrorResponse == [status |-> 500, error |-> "Failed to generate insights"]

\* The handler on any POST body.
Respond(body) ==
  IF Throws(body) THEN ErrorResponse
  ELSE Serve([transactions |-> ReadTransactions(body), timeframe |-> ReadTimeframe(body)])

(***************************************************************************)
(* AIAssistant.generateLocalInsights, the in-process fallback.             *)
(* Instants are minutes since 2024-06-01T00:00Z; tz is the offset of the   *)
(* browser's time zone from UTC in hours.                                  *)
(***************************************************************************)
TzOffsets == {-5, 0, 6}

\* new Date(t.date): a date-only string is midnight UTC of its day, a
\* timestamp of the model is 09:30 UTC of its day.
DateInstant(date) ==
  (DayNumber(date[1]) - 2) * 1440 + (IF Len(date) > 1 THEN 570 ELSE 0)

\* startOfMonth(new Date()): local midnight of 1 June 2024.
currentMonth(tz) == 0 - tz * 60

monthlyTransactions(txs, tz) ==
  LET InMonth(t) == DateInstant(t.date) >= currentMonth(tz)
  IN SelectSeq(txs, InMonth)

LocalTopCategoryInsight(top) ==
  Insight("spending_pattern", "Top Expense Category",
          "Your highest expense category this month is " \o top[1] \o " with $"
            \o ToFixed(F64FromInt(top[2]), 2) \o " spent.",
          "medium",
          "Consider setting a budget limit for " \o top[1] \o " to better control spending.")

LocalBudgetAlertInsight(income, expenses) ==
  Insight("budget_alert", "Spending Exceeds Income",
          "You've spent $" \o ToFixed(F64FromInt(expenses - income), 2)
            \o " more than you earned this month.",
          "high",
          "Review your expenses and consider reducing spending in non-essential categories.")

LocalSavingTipInsight(income, expenses) ==
  LET rate == F64Mul(F64Div(income - expenses, income), F64FromInt(100))
  IN Insight("saving_tip", "Great Saving Progress",
             "You saved " \o ToFixed(rate, 1) \o "% of your income this month!",
             "low", SavingTipAction(rate))

generateLocalInsights(txs, tz) ==
  LET monthly == monthlyTransactions(txs, tz)
      monthlyIncome == totalIncome(monthly)
      monthlyExpenses == totalExpenses(monthly)
      topCategory == topExpenseCategory(monthly)
  IN (IF TopCategoryRule(topCategory) THEN <<LocalTopCategoryInsight(topCategory)>> ELSE <<>>)
     \o (IF monthlyExpenses > monthlyIncome
           THEN <<LocalBudgetAlertInsight(monthlyIncome, monthlyExpenses)>> ELSE <<>>)
     \o (IF monthlyIncome > monthlyExpenses
           THEN <<LocalSavingTipInsight(monthlyIncome, monthlyExpenses)>> ELSE <<>>)

(***************************************************************************)
(* The state machine: a list of transactions held by AIAssistant is either *)
(* posted to the edge function, which answers, or handled by the fallback. *)
(***************************************************************************)
VARIABLES
  transactions,  \* the transactions AIAssistant holds
  request,       \* the body of the request posted to the edge function
  response,      \* the edge function's response
  insights,      \* AIAssistant's insights state
  tzOffset,      \* the browser's UTC offset the fallback ran under
  pc,            \* "request", "responded" or "fallback"; for generateInsights:
                 \* "mounted", "awaiting", "parsing" or "done"; for the other
                 \* handlers the await they have reached
  loading,       \* the loading state of the component that is followed
  network,       \* the fetch: "idle", "pending", "rejected", "resolved",
                 \* "parsed" or "badBody"
  fetches,       \* the number of requests issued
  fallbacks,     \* the number of runs of generateLocalInsights
  \* The rest of the application: the isolate that serves the edge
  \* function, the store, and the components that read and write it.
  invocations,          \* the edge function's invocations in this isolate
  served,               \* the insights pushed by the completed invocations
  table,                \* the rows of the store's table
  nextId,               \* the id the store gives to the next inserted row
  calls,                \* the requests made to the store, in order of issue
  hooks,                \* the state of each useTransactions instance
  activeTab,            \* App's activeTab
  showTransactionForm,  \* App's showTransactionForm
  goals,                \* Goals' goals state
  inputValue,           \* the text of the 'Add amount' input of a goal
  entered,              \* the amounts the add-amount handlers passed on
  confirmation,         \* the answer to Settings' window.prompt
  deletes,              \* the three delete requests of handleDeleteAccount
  signOut,              \* the call of signOut
  component,            \* the component whose form is submitted
  showForm,             \* its showForm state
  editing,              \* its editingBudget or editingGoal state
  formData,             \* its formData state
  refetches             \* the calls of fetchBudgets or fetchGoals by the submit

\* Everything but pc and loading, which every component has.
engineVars == <<transactions, request, response, insights, tzOffset, network, fetches, fallbacks>>
serverVars == <<invocations, served>>
storeVars == <<table, nextId, calls>>
hookVars == <<hooks, activeTab, showTransactionForm>>
goalsVars == <<goals, inputValue, entered>>
settingsVars == <<confirmation, deletes, signOut>>
formVars == <<component, showForm, editing, formData, refetches>>

vars == <<transactions, request, response, insights, tzOffset, pc,
          loading, network, fetches, fallbacks,
          serverVars, storeVars, hookVars, goalsVars, settingsVars, formVars>>

appVars == <<serverVars, storeVars, hookVars, goalsVars, settingsVars, formVars>>

\* The tables handleDeleteAccount empties.
UserTables == {"transactions", "budgets", "goals"}

\* The parts of the application a specification is not about are at rest:
\* no invocation, an empty store, no component mounted, no dialog answered.
EngineIdle ==
  /\ transactions = <<>>
  /\ request = Null
  /\ response = Null
  /\ insights = <<>>
  /\ tzOffset = 0
  /\ network = "idle"
  /\ fetches = 0
  /\ fallbacks = 0

ServerIdle == invocations = <<>> /\ served = <<>>

StoreIdle == table = {} /\ nextId = 1 /\ calls = <<>>

HooksIdle == hooks = <<>> /\ activeTab = "settings" /\ showTransactionForm = FALSE

GoalsIdle == goals = <<>> /\ inputValue = "" /\ entered = <<>>

SettingsIdle ==
  /\ confirmation = JsonNull
  /\ deletes = [t \in UserTables |-> "none"]
  /\ signOut = "none"

FormIdle ==
  /\ component = "none"
  /\ showForm = FALSE
  /\ editing = Null
  /\ formData = Null
  /\ refetches = 0

AppIdle == ServerIdle /\ StoreIdle /\ HooksIdle /\ GoalsIdle /\ SettingsIdle /\ FormIdle

Init ==
  /\ transactions \in TxLists
  /\ request = Null
  /\ response = Null
  /\ insights = <<>>
  /\ tzOffset = 0
  /\ pc = "request"
  /\ loading = TRUE
  /\ network = "idle"
  /\ fetches = 0
  /\ fallbacks = 0
  /\ AppIdle

\* The edge function receives a body and answers.
Handler ==
  /\ pc = "request"
  /\ \E body \in Bodies(transactions) :
       /\ request' = body
       /\ response' = Respond(body)
  /\ pc' = "responded"
  /\ UNCHANGED <<transactions, insights, tzOffset, loading, network, fetches, fallbacks>>
  /\ UNCHANGED appVars

\* The request failed and AIAssistant runs the fallback on its own list.
GenerateLocalInsights ==
  /\ pc = "request"
  /\ \E tz \in TzOffsets :
       /\ tzOffset' = tz
       /\ insights' = generateLocalInsights(transactions, tz)
  /\ pc' = "fallback"
  /\ UNCHANGED <<transactions, request, response, loading, network, fetches, fallbacks>>
  /\ UNCHANGED appVars

Next == Handler \/ GenerateLocalInsights

Spec == Init /\ [][Next]_vars

(***************************************************************************)
(* AIAssistant.generateInsights: one invocation, from the effect that      *)
(* calls it to its finally block, with the fetch and the parsing of the    *)
(* response body as the two points where it waits.                         *)
(***************************************************************************)
\* transactions.slice(0, 100)
SliceLimit == 100

\* Bounds of the lists the hook can hold.
MaxCallerTx == 2
MaxExtra == 2

\* Long lists: n records around the slice limit, all different, those
\* beyond the limit dated last month.
LongLists ==
  {[i \in 1..n |->
      Tx(IF i % 2 = 1 THEN "expense" ELSE "income", i, "Food",
         IF i <= SliceLimit THEN DateOfDay(1) ELSE LastMonthDate)] :
     n \in (SliceLimit - 1)..(SliceLimit + MaxExtra)}

CallerLists == ListsUpTo(GeneralTx, MaxCallerTx) \cup LongLists

\* Mutant: the whole list is sent.
RequestBody_Unsliced(txs) == Body("none", txs, "month")

\* JSON.stringify({ transactions: transactions.slice(0, 100), timeframe: 'month' })
RequestBody(txs) == Body("none", Slice0(txs, SliceLimit), "month")

\* Mutant: every response is taken for a success.
ResponseOk_Always(resp) == TRUE

\* response.ok
ResponseOk(resp) == resp.status >= 200 /\ resp.status <= 299

\* data.insights || []
DataInsights(data) == IF "insights" \in DOMAIN data THEN data.insights ELSE <<>>

CallerInit ==
  /\ transactions \in CallerLists
  /\ tzOffset \in TzOffsets
  /\ request = Null
  /\ response = Null
  /\ insights = <<>>
  /\ pc = "mounted"
  /\ loading = TRUE
  /\ network = "idle"
  /\ fetches = 0
  /\ fallbacks = 0
  /\ AppIdle

\* generateInsights up to its first await: the early return on an empty
\* list, else the fetch.
GenerateInsights ==
  /\ pc = "mounted"
  /\ IF transactions = <<>>
       THEN /\ loading' = FALSE
            /\ pc' = "done"
            /\ UNCHANGED <<request, network, fetches>>
       ELSE /\ request' = RequestBody(transactions)
            /\ network' = "pending"
            /\ fetches' = fetches + 1
            /\ pc' = "awaiting"
            /\ UNCHANGED loading
  /\ UNCHANGED <<transactions, response, insights, tzOffset, fallbacks>>
  /\ UNCHANGED appVars

\* generateLocalInsights() followed by the finally block.
FallBackAndFinish ==
  /\ insights' = generateLocalInsights(transactions, tzOffset)
  /\ fallbacks' = fallbacks + 1
  /\ loading' = FALSE
  /\ pc' = "done"

\* fetch rejects: the catch block, then finally.
FetchRejected ==
  /\ pc = "awaiting"
  /\ network' = "rejected"
  /\ FallBackAndFinish
  /\ UNCHANGED <<transactions, request, response, tzOffset, fetches>>
  /\ UNCHANGED appVars

\* fetch resolves with the edge function's answer or with an error status:
\* on response.ok the body is awaited, else the else branch and finally run.
FetchResolved ==
  /\ pc = "awaiting"
  /\ \E resp \in {Respond(request), ErrorResponse} :
       /\ response' = resp
       /\ network' = "resolved"
       /\ IF ResponseOk(resp)
            THEN /\ pc' = "parsing"
                 /\ UNCHANGED <<insights, fallbacks, loading>>
            ELSE FallBackAndFinish
  /\ UNCHANGED <<transactions, request, tzOffset, fetches>>
  /\ UNCHANGED appVars

\* response.json() resolves: setInsights(data.insights || []), then finally.
JsonParsed ==
  /\ pc = "parsing"
  /\ network' = "parsed"
  /\ insights' = DataInsights(response)
  /\ loading' = FALSE
  /\ pc' = "done"
  /\ UNCHANGED <<transactions, request, response, tzOffset, fetches, fallbacks>>
  /\ UNCHANGED appVars

\* response.json() rejects: the catch block, then finally.
JsonRejected ==
  /\ pc = "parsing"
  /\ network' = "badBody"
  /\ FallBackAndFinish
  /\ UNCHANGED <<transactions, request, response, tzOffset, fetches>>
  /\ UNCHANGED appVars

CallerNext ==
  GenerateInsights \/ FetchRejected \/ FetchResolved \/ JsonParsed \/ JsonRejected

CallerSpec == CallerInit /\ [][CallerNext]_vars

\* A step of the invocation, seen on its position alone: every step of
\* CallerNext moves pc, and one is possible as long as pc is not "done".
InvocationAdvances ==
  /\ pc # "done"
  /\ pc' \in {"awaiting", "parsing", "done"} \ {pc}

\* Every pending promise settles and its continuation runs: an invocation
\* that can advance eventually does.
CallerFairSpec == CallerSpec /\ WF_pc(InvocationAdvances)

(***************************************************************************)
(* The isolate that serves the edge function.  Deno.serve runs the handler *)
(* once per request; an invocation waits at await req.json() and then runs *)
(* to its return without waiting again, so two invocations interleave at   *)
(* that one point.  The module has no variable of its own: all the handler *)
(* writes is local to the invocation.                                      *)
(***************************************************************************)
\* Bound: the invocations of one isolate.
MaxInvocations == 2

ServerLists ==
  {<<Tx("income", a, "Salary", DateOfDay(1)), Tx("expense", b, "Food", DateOfDay(1))>> :
     <<a, b>> \in {<<0, 0>>, <<2, 1>>, <<1, 2>>}}

ServerBodies ==
  {Body("none", txs, tf) : txs \in ServerLists, tf \in {"week", "month"}}
    \cup {Body("unparsable", <<>>, "month")}

\* const insights = []: the array the rules push onto is created by the
\* invocation, whatever earlier invocations pushed.
\* Mutant: one array at module level that every invocation pushes onto.
InsightsArray_ModuleLevel(earlier) == earlier

InsightsArray(earlier) == <<>>

\* The response of an invocation in an isolate whose earlier invocations
\* pushed the insights `earlier`.
RespondAfter(earlier, body) ==
  LET alone == Respond(body)
  IN IF alone.status = 200
       THEN [alone EXCEPT !.insights = InsightsArray(earlier) \o @]
       ELSE alone

Invocation(phase, body, resp) == [phase |-> phase, body |-> body, response |-> resp]

ServerInit ==
  /\ invocations = <<>>
  /\ served = <<>>
  /\ pc = "serving"
  /\ loading = FALSE
  /\ EngineIdle /\ StoreIdle /\ HooksIdle /\ GoalsIdle /\ SettingsIdle /\ FormIdle

\* A request arrives: the handler starts and waits for the body.
Receive ==
  /\ Len(invocations) < MaxInvocations
  /\ \E body \in ServerBodies :
       invocations' = Append(invocations, Invocation("reading", body, Null))
  /\ UNCHANGED <<served, pc, loading, engineVars, storeVars, hookVars, goalsVars,
                 settingsVars, formVars>>

\* req.json() settles: the rest of the handler runs and answers.
Resume ==
  /\ \E i \in 1..Len(invocations) :
       /\ invocations[i].phase = "reading"
       /\ LET resp == RespondAfter(served, invocations[i].body)
          IN /\ invocations' =
                  [invocations EXCEPT ![i] = Invocation("responded", @.body, resp)]
             /\ served' = IF resp.status = 200 THEN served \o Respond(invocations[i].body).insights
                                              ELSE served
  /\ UNCHANGED <<pc, loading, engineVars, storeVars, hookVars, goalsVars,
                 settingsVars, formVars>>

ServerNext == Receive \/ Resume

ServerSpec == ServerInit /\ [][ServerNext]_vars

(***************************************************************************)
(* The useTransactions hook (src/unnamed/part_002) and the components that *)
(* call it.  Every component that calls the hook gets an instance with a   *)
(* list and a loading flag of its own; App shows the component of the      *)
(* active tab and, over it, TransactionForm.  A request to the store is    *)
(* "sent", then processed by the store ("ok" with its data, or "error"),   *)
(* then "returned" when the continuation of the await has run.  The tab    *)
(* stays the same during a behaviour and the form is opened once.          *)
(* updateTransaction is exported by the hook and called by no component;   *)
(* it is called here on a record of the list of TransactionList.           *)
(***************************************************************************)
\* Bounds: the requests of one behaviour and the rows the store starts with.
MaxCalls == 3
MaxRows == 2

\* The tabs of App whose component calls the hook, and that component.
HookTabs == {"dashboard", "transactions", "budget", "analytics", "ai-assistant"}

TabComponent(tab) ==
  CASE tab = "dashboard" -> "Dashboard"
    [] tab = "transactions" -> "TransactionList"
    [] tab = "budget" -> "Budget"
    [] tab = "analytics" -> "Analytics"
    [] tab = "ai-assistant" -> "AIAssistant"

\* A row of the transactions table: a transaction with the id the store
\* gave it.
StoredTx(id, t) ==
  [id |-> id, type |-> t.type, amount |-> t.amount, category |-> t.category, date |-> t.date]

\* The rows a behaviour starts with: row i is dated on day 2 * i - 1.
InitialRow(i) == StoredTx(i, Tx("expense", i, "Food", DateOfDay(2 * i - 1)))

InitialTables == {{InitialRow(i) : i \in 1..n} : n \in 0..MaxRows}

\* The transaction TransactionForm submits.
FormTransaction == Tx("expense", 1, "Food", DateOfDay(1))

\* The amounts an update writes.
UpdateAmounts == {9}

\* useState([]), useState(true)
FreshHook == [transactions |-> <<>>, loading |-> TRUE]

\* A request: who made it, what it asks for (the id and the amount it
\* names, 0 where it names none), how far it has got, the data the store
\* answered with and what the call returned.
Call(inst, op, id, amount, phase, data, result) ==
  [inst |-> inst, op |-> op, id |-> id, amount |-> amount,
   phase |-> phase, data |-> data, result |-> result]

NewCall(inst, op, id, amount) == Call(inst, op, id, amount, "sent", <<>>, "none")

\* .order('date', { ascending: false }): the rows by descending date, rows
\* of the same date in any order.
OrderByDateDesc(rows) ==
  {r \in [1..Cardinality(rows) -> rows] :
     /\ \A i, j \in 1..Cardinality(rows) : i # j => r[i] # r[j]
     /\ \A i, j \in 1..Cardinality(rows) :
          i < j => DayNumber(r[i].date[1]) >= DayNumber(r[j].date[1])}

\* setTransactions(prev => [data, ...prev])
\* Mutant: the record is put at the end of the list.
Prepend_AtEnd(data, prev) == prev \o <<data>>

Prepend(data, prev) == <<data>> \o prev

\* setTransactions(prev => prev.map(t => t.id === id ? data : t))
ReplaceById(prev, id, data) ==
  [k \in 1..Len(prev) |-> IF prev[k].id = id THEN data ELSE prev[k]]

\* setTransactions(prev => prev.filter(t => t.id !== id))
RemoveById(prev, id) ==
  LET Other(t) == t.id # id
  IN SelectSeq(prev, Other)

\* The instances whose list a setTransactions of instance inst writes: the
\* state belongs to the hook call that made it, and a component that is no
\* longer mounted has no state.
\* Mutant: one list shared by all mounted instances.
ListHolders_Shared(inst, mounted) == mounted

ListHolders(inst, mounted) == {inst} \cap mounted

\* The hooks after setTransactions(new) of instance inst.
SetTransactions(inst, new) ==
  [i \in DOMAIN hooks |->
     IF i \in ListHolders(inst, DOMAIN hooks)
       THEN [hooks[i] EXCEPT !.transactions = new] ELSE hooks[i]]

HookInit ==
  /\ table \in InitialTables
  /\ nextId = Cardinality(table) + 1
  /\ activeTab \in HookTabs
  /\ showTransactionForm = FALSE
  /\ hooks = (TabComponent(activeTab) :> FreshHook)
  /\ calls = <<NewCall(TabComponent(activeTab), "fetch", 0, 0)>>
  /\ pc = "app"
  /\ loading = FALSE
  /\ EngineIdle /\ ServerIdle /\ GoalsIdle /\ SettingsIdle /\ FormIdle

HookFrame ==
  UNCHANGED <<activeTab, pc, loading, engineVars, serverVars, goalsVars, settingsVars, formVars>>

\* App's onAddTransaction: TransactionForm is mounted, and the effect of
\* its hook instance sends the fetch.
OpenForm ==
  /\ ~showTransactionForm
  /\ \A i \in 1..Len(calls) : calls[i].inst # "TransactionForm"
  /\ Len(calls) < MaxCalls
  /\ showTransactionForm' = TRUE
  /\ hooks' = hooks @@ ("TransactionForm" :> FreshHook)
  /\ calls' = Append(calls, NewCall("TransactionForm", "fetch", 0, 0))
  /\ UNCHANGED <<table, nextId>>
  /\ HookFrame

\* onClose: App unmounts TransactionForm and its hook instance.
CloseForm ==
  /\ showTransactionForm
  /\ showTransactionForm' = FALSE
  /\ hooks' = [i \in DOMAIN hooks \ {"TransactionForm"} |-> hooks[i]]
  /\ UNCHANGED <<table, nextId, calls>>
  /\ HookFrame

\* TransactionForm.handleSubmit calls addTransaction, which sends the
\* insert; the submit button is disabled until the call has returned.
AddTransaction ==
  /\ showTransactionForm
  /\ \A i \in 1..Len(calls) : calls[i].op = "add" => calls[i].phase = "returned"
  /\ Len(calls) < MaxCalls
  /\ calls' = Append(calls, NewCall("TransactionForm", "add", 0, FormTransaction.amount))
  /\ UNCHANGED <<table, nextId, hooks, showTransactionForm>>
  /\ HookFrame

\* updateTransaction(id, { amount }) on a record of the list.
UpdateTransaction ==
  /\ activeTab = "transactions"
  /\ Len(calls) < MaxCalls
  /\ \E k \in 1..Len(hooks["TransactionList"].transactions) : \E amount \in UpdateAmounts :
       calls' = Append(calls, NewCall("TransactionList", "update",
                                      hooks["TransactionList"].transactions[k].id, amount))
  /\ UNCHANGED <<table, nextId, hooks, showTransactionForm>>
  /\ HookFrame

\* TransactionList.handleDelete, confirmed: deleteTransaction(id) on a
\* record of the list.
DeleteTransaction ==
  /\ activeTab = "transactions"
  /\ Len(calls) < MaxCalls
  /\ \E k \in 1..Len(hooks["TransactionList"].transactions) :
       calls' = Append(calls, NewCall("TransactionList", "delete",
                                      hooks["TransactionList"].transactions[k].id, 0))
  /\ UNCHANGED <<table, nextId, hooks, showTransactionForm>>
  /\ HookFrame

\* The store answers a request with an error and leaves the table alone.
StoreFails ==
  /\ \E i \in 1..Len(calls) :
       /\ calls[i].phase = "sent"
       /\ calls' = [calls EXCEPT ![i].phase = "error"]
  /\ UNCHANGED <<table, nextId, hooks, showTransactionForm>>
  /\ HookFrame

\* select('*').order('date', { ascending: false })
StoreSelects ==
  /\ \E i \in 1..Len(calls) :
       /\ calls[i].phase = "sent" /\ calls[i].op = "fetch"
       /\ \E rows \in OrderByDateDesc(table) :
            calls' = [calls EXCEPT ![i].phase = "ok", ![i].data = rows]
  /\ UNCHANGED <<table, nextId, hooks, showTransactionForm>>
  /\ HookFrame

\* insert([transaction]).select().single(): the row is stored under a new
\* id and returned.
StoreInserts ==
  /\ \E i \in 1..Len(calls) :
       /\ calls[i].phase = "sent" /\ calls[i].op = "add"
       /\ table' = table \cup {StoredTx(nextId, FormTransaction)}
       /\ nextId' = nextId + 1
       /\ calls' = [calls EXCEPT ![i].phase = "ok",
                                  ![i].data = <<StoredTx(nextId, FormTransaction)>>]
  /\ UNCHANGED <<hooks, showTransactionForm>>
  /\ HookFrame

\* update(updates).eq('id', id).select().single(): the updated row is
\* returned; without a row of that id single() answers with an error.
StoreUpdates ==
  /\ \E i \in 1..Len(calls) :
       /\ calls[i].phase = "sent" /\ calls[i].op = "update"
       /\ LET hit == {r \in table : r.id = calls[i].id}
              new == {[r EXCEPT !.amount = calls[i].amount] : r \in hit}
          IN /\ table' = (table \ hit) \cup new
             /\ calls' = IF hit = {} THEN [calls EXCEPT ![i].phase = "error"]
                          ELSE [calls EXCEPT ![i].phase = "ok",
                                             ![i].data = <<CHOOSE r \in new : TRUE>>]
  /\ UNCHANGED <<nextId, hooks, showTransactionForm>>
  /\ HookFrame

\* delete().eq('id', id): succeeds whether or not a row has that id.
StoreDeletes ==
  /\ \E i \in 1..Len(calls) :
       /\ calls[i].phase = "sent" /\ calls[i].op = "delete"
       /\ table' = {r \in table : r.id # calls[i].id}
       /\ calls' = [calls EXCEPT ![i].phase = "ok"]
  /\ UNCHANGED <<nextId, hooks, showTransactionForm>>
  /\ HookFrame

\* The continuation of fetchTransactions: setTransactions(data || []) unless
\* there is an error, then setLoading(false).
FetchSettles ==
  /\ \E i \in 1..Len(calls) :
       /\ calls[i].op = "fetch" /\ calls[i].phase \in {"ok", "error"}
       /\ LET inst == calls[i].inst
              set == IF calls[i].phase = "ok" THEN SetTransactions(inst, calls[i].data)
                     ELSE hooks
          IN hooks' = [j \in DOMAIN hooks |->
                         IF j = inst THEN [set[j] EXCEPT !.loading = FALSE] ELSE set[j]]
       /\ calls' = [calls EXCEPT ![i].phase = "returned",
                                  ![i].result = IF calls[i].phase = "ok" THEN "data" ELSE "error"]
  /\ UNCHANGED <<table, nextId, showTransactionForm>>
  /\ HookFrame

\* The continuation of addTransaction: return { error }, or prepend the
\* stored record and return { data }.
AddSettles ==
  /\ \E i \in 1..Len(calls) :
       /\ calls[i].op = "add" /\ calls[i].phase \in {"ok", "error"}
       /\ IF calls[i].phase = "error"
            THEN /\ hooks' = hooks
                 /\ calls' = [calls EXCEPT ![i].phase = "returned", ![i].result = "error"]
            ELSE /\ hooks' = [j \in DOMAIN hooks |->
                                IF j \in ListHolders(calls[i].inst, DOMAIN hooks)
                                  THEN [hooks[j] EXCEPT !.transactions = Prepend(calls[i].data[1], @)]
                                  ELSE hooks[j]]
                 /\ calls' = [calls EXCEPT ![i].phase = "returned", ![i].result = "data"]
  /\ UNCHANGED <<table, nextId, showTransactionForm>>
  /\ HookFrame

\* The continuation of updateTransaction.
UpdateSettles ==
  /\ \E i \in 1..Len(calls) :
       /\ calls[i].op = "update" /\ calls[i].phase \in {"ok", "error"}
       /\ IF calls[i].phase = "error"
            THEN /\ hooks' = hooks
                 /\ calls' = [calls EXCEPT ![i].phase = "returned", ![i].result = "error"]
            ELSE /\ hooks' = [j \in DOMAIN hooks |->
                                IF j \in ListHolders(calls[i].inst, DOMAIN hooks)
                                  THEN [hooks[j] EXCEPT !.transactions =
                                          ReplaceById(@, calls[i].id, calls[i].data[1])]
                                  ELSE hooks[j]]
                 /\ calls' = [calls EXCEPT ![i].phase = "returned", ![i].result = "data"]
  /\ UNCHANGED <<table, nextId, showTransactionForm>>
  /\ HookFrame

\* The continuation of deleteTransaction.
DeleteSettles ==
  /\ \E i \in 1..Len(calls) :
       /\ calls[i].op = "delete" /\ calls[i].phase \in {"ok", "error"}
       /\ IF calls[i].phase = "error"
            THEN /\ hooks' = hooks
                 /\ calls' = [calls EXCEPT ![i].phase = "returned", ![i].result = "error"]
            ELSE /\ hooks' = [j \in DOMAIN hooks |->
                                IF j \in ListHolders(calls[i].inst, DOMAIN hooks)
                                  THEN [hooks[j] EXCEPT !.transactions = RemoveById(@, calls[i].id)]
                                  ELSE hooks[j]]
                 /\ calls' = [calls EXCEPT ![i].phase = "returned", ![i].result = "null"]
  /\ UNCHANGED <<table, nextId, showTransactionForm>>
  /\ HookFrame

HookNext ==
  \/ OpenForm \/ CloseForm \/ AddTransaction \/ UpdateTransaction \/ DeleteTransaction
  \/ StoreFails \/ StoreSelects \/ StoreInserts \/ StoreUpdates \/ StoreDeletes
  \/ FetchSettles \/ AddSettles \/ UpdateSettles \/ DeleteSettles

HookSpec == HookInit /\ [][HookNext]_vars

(***************************************************************************)
(* Goals (src/src/components/Settings.tsx, from line 508): the progress of *)
(* a goal.  The table holds one goal.  Each goal card has an input and two *)
(* handlers, on the Enter key and on the button, that add the typed amount *)
(* to the current_amount of the goal as it was last rendered.              *)
(***************************************************************************)
\* Bounds: the add-amount actions of one behaviour and the largest amount
\* typed.
MaxAdds == 2
MaxAmount == 2

Goal(id, current) == [id |-> id, current_amount |-> current]

InitialGoal == Goal(1, 10)

\* The text of a whole number.
IntToText(n) == IF n < 0 THEN "-" \o NatToString(0 - n) ELSE NatToString(n)

\* What the input can hold: nothing, or a whole number.
InputTexts == {""} \cup {IntToText(n) : n \in -1..MaxAmount}

\* parseFloat(input.value): NaN for the empty text.
ParseFloat(text) ==
  IF \E n \in -1..MaxAmount : IntToText(n) = text
    THEN [nan |-> FALSE, value |-> CHOOSE n \in -1..MaxAmount : IntToText(n) = text]
    ELSE [nan |-> TRUE, value |-> 0]

\* amount > 0, false for NaN.
PositiveAmount(amount) == ~amount.nan /\ amount.value > 0

GoalsInit ==
  /\ table = {InitialGoal}
  /\ nextId = 2
  /\ calls = <<NewCall("Goals", "fetch", 0, 0)>>
  /\ goals = <<>>
  /\ inputValue = ""
  /\ entered = <<>>
  /\ loading = TRUE
  /\ pc = "goals"
  /\ hooks = <<>> /\ activeTab = "goals" /\ showTransactionForm = FALSE
  /\ EngineIdle /\ ServerIdle /\ SettingsIdle /\ FormIdle

GoalsFrame ==
  UNCHANGED <<nextId, pc, engineVars, serverVars, hookVars, settingsVars, formVars>>

\* The user types into the input of the goal card.
TypeAmount ==
  /\ goals # <<>>
  /\ \E text \in InputTexts \ {inputValue} : inputValue' = text
  /\ UNCHANGED <<table, calls, goals, entered, loading>>
  /\ GoalsFrame

\* The handlers of the Enter key and of the button, which are the same
\* code: parse the input; if the amount is positive, call
\* updateGoalProgress(goal.id, goal.current_amount + amount), which sends
\* the update, and clear the input.
AddAmount ==
  /\ \E k \in 1..Len(goals) :
       LET amount == ParseFloat(inputValue)
       IN /\ PositiveAmount(amount)
          /\ Len(entered) < MaxAdds
          /\ calls' = Append(calls, NewCall("Goals", "update", goals[k].id,
                                            goals[k].current_amount + amount.value))
          /\ entered' = Append(entered, amount.value)
  /\ inputValue' = ""
  /\ UNCHANGED <<table, goals, loading>>
  /\ GoalsFrame

\* update({ current_amount: newAmount }).eq('id', goalId)
StoreUpdatesGoal ==
  /\ \E i \in 1..Len(calls) :
       /\ calls[i].phase = "sent" /\ calls[i].op = "update"
       /\ table' = {IF r.id = calls[i].id THEN Goal(r.id, calls[i].amount) ELSE r : r \in table}
       /\ calls' = [calls EXCEPT ![i].phase = "ok"]
  /\ UNCHANGED <<goals, inputValue, entered, loading>>
  /\ GoalsFrame

\* select('*') on the goals table, which holds one goal.
StoreSelectsGoals ==
  /\ \E i \in 1..Len(calls) :
       /\ calls[i].phase = "sent" /\ calls[i].op = "fetch"
       /\ \E r \in table : calls' = [calls EXCEPT ![i].phase = "ok", ![i].data = <<r>>]
  /\ UNCHANGED <<table, goals, inputValue, entered, loading>>
  /\ GoalsFrame

\* The continuation of updateGoalProgress: without an error fetchGoals() is
\* called, which sends the select.
UpdateGoalProgressSettles ==
  /\ \E i \in 1..Len(calls) :
       /\ calls[i].op = "update" /\ calls[i].phase \in {"ok", "error"}
       /\ LET returned == [calls EXCEPT ![i].phase = "returned",
                                        ![i].result = IF calls[i].phase = "ok" THEN "null" ELSE "error"]
          IN calls' = IF calls[i].phase = "ok"
                        THEN Append(returned, NewCall("Goals", "fetch", 0, 0))
                        ELSE returned
  /\ UNCHANGED <<table, goals, inputValue, entered, loading>>
  /\ GoalsFrame

\* The continuation of fetchGoals: setGoals(data || []) unless there is an
\* error, then setLoading(false).
FetchGoalsSettles ==
  /\ \E i \in 1..Len(calls) :
       /\ calls[i].op = "fetch" /\ calls[i].phase \in {"ok", "error"}
       /\ goals' = IF calls[i].phase = "ok" THEN calls[i].data ELSE goals
       /\ calls' = [calls EXCEPT ![i].phase = "returned",
                                  ![i].result = IF calls[i].phase = "ok" THEN "data" ELSE "error"]
  /\ loading' = FALSE
  /\ UNCHANGED <<table, inputValue, entered>>
  /\ GoalsFrame

GoalsNext ==
  \/ TypeAmount \/ AddAmount
  \/ StoreFails \/ StoreUpdatesGoal \/ StoreSelectsGoals
  \/ UpdateGoalProgressSettles \/ FetchGoalsSettles

GoalsSpec == GoalsInit /\ [][GoalsNext]_vars

(***************************************************************************)
(* Settings.handleDeleteAccount (src/src/components/Settings.tsx:55-78).   *)
(* A delete request is "sent" and then settles: "fulfilled", "failed" when *)
(* it is fulfilled with an error in its result, or "rejected".             *)
(* Promise.all is fulfilled when the three requests are, and rejected as   *)
(* soon as one is rejected.                                                *)
(***************************************************************************)
\* What window.prompt can return: null when it is cancelled, else the text.
PromptAnswers ==
  {JsonNull, JsonString(""), JsonString("delete"), JsonString("DELETE "), JsonString("DELETE")}

\* confirmation === 'DELETE'
\* Mutant: the answer is trimmed before it is compared.
Confirmed_Trimmed(answer) == answer \in {JsonString("DELETE"), JsonString("DELETE ")}

Confirmed(answer) == answer = JsonString("DELETE")

DeleteInit ==
  /\ confirmation = JsonNull
  /\ deletes = [t \in UserTables |-> "none"]
  /\ signOut = "none"
  /\ loading = FALSE
  /\ pc = "settings"
  /\ EngineIdle /\ ServerIdle /\ StoreIdle /\ HooksIdle /\ GoalsIdle /\ FormIdle

DeleteFrame ==
  UNCHANGED <<engineVars, serverVars, storeVars, hookVars, goalsVars, formVars>>

\* handleDeleteAccount up to its first await: the prompt, and on 'DELETE'
\* setLoading(true) and the three delete requests.
HandleDeleteAccount ==
  /\ pc = "settings"
  /\ \E answer \in PromptAnswers :
       /\ confirmation' = answer
       /\ IF Confirmed(answer)
            THEN /\ loading' = TRUE
                 /\ deletes' = [t \in UserTables |-> "sent"]
                 /\ pc' = "deleting"
            ELSE /\ pc' = "done"
                 /\ UNCHANGED <<loading, deletes>>
  /\ UNCHANGED signOut
  /\ DeleteFrame

\* One of the delete requests settles.
DeleteRequestSettles ==
  /\ \E t \in UserTables : \E outcome \in {"fulfilled", "failed", "rejected"} :
       /\ deletes[t] = "sent"
       /\ deletes' = [deletes EXCEPT ![t] = outcome]
  /\ UNCHANGED <<confirmation, signOut, loading, pc>>
  /\ DeleteFrame

\* Promise.all is fulfilled: signOut() is called and awaited.
DeletesFulfilled ==
  /\ pc = "deleting"
  /\ \A t \in UserTables : deletes[t] \in {"fulfilled", "failed"}
  /\ signOut' = "called"
  /\ pc' = "signingOut"
  /\ UNCHANGED <<confirmation, deletes, loading>>
  /\ DeleteFrame

\* Promise.all is rejected: the catch block, then finally.
DeletesRejected ==
  /\ pc = "deleting"
  /\ \E t \in UserTables : deletes[t] = "rejected"
  /\ loading' = FALSE
  /\ pc' = "done"
  /\ UNCHANGED <<confirmation, deletes, signOut>>
  /\ DeleteFrame

\* signOut() settles: the end of the try block or the catch block, then
\* finally.
SignOutSettles ==
  /\ pc = "signingOut"
  /\ \E outcome \in {"resolved", "rejected"} : signOut' = outcome
  /\ loading' = FALSE
  /\ pc' = "done"
  /\ UNCHANGED <<confirmation, deletes>>
  /\ DeleteFrame

DeleteNext ==
  \/ HandleDeleteAccount \/ DeleteRequestSettles \/ DeletesFulfilled
  \/ DeletesRejected \/ SignOutSettles

DeleteSpec == DeleteInit /\ [][DeleteNext]_vars

\* Every request settles and every continuation runs.
DeleteFairSpec == DeleteSpec /\ WF_vars(DeleteNext)

(***************************************************************************)
(* The submit handlers of the three forms: Budget.handleSubmit             *)
(* (src/unnamed/part_003:68-105), Goals.handleSubmit (Settings.tsx:550-587)*)
(* and TransactionForm.handleSubmit (TransactionForm.tsx:35-57).  The form *)
(* is open and filled in; one submit is followed from the click to the     *)
(* finally block.  The write and the refetch are requests that the store   *)
(* answers with "ok" or "error", or that are "rejected"; what the table    *)
(* holds plays no part.                                                    *)
(***************************************************************************)
FormComponents == {"Budget", "Goals", "TransactionForm"}

\* The record being edited: a budget or a goal, by its id.
EditedRecords == {Null, [id |-> 1]}

\* The fields typed into the form: the name (a category or a title) and
\* the amount.
FormInputs == {[name |-> n, amount |-> a] : n \in {"Food", "Other"}, a \in {"", "25"}}

\* The fields of an empty form.
EmptyForm == [name |-> "", amount |-> ""]

\* if (error) throw error; if (!error) onClose(): the write counts as done
\* when the store answered without an error.
\* Mutant: an error in the answer is not looked at.
Saved_ErrorIgnored(phase) == phase \in {"ok", "error"}

Saved(phase) == phase = "ok"

FormInit ==
  /\ component \in FormComponents
  /\ IF component = "TransactionForm"
       THEN /\ showTransactionForm = TRUE
            /\ showForm = FALSE
            /\ editing = Null
            /\ activeTab \in HookTabs
       ELSE /\ showTransactionForm = FALSE
            /\ showForm = TRUE
            /\ editing \in EditedRecords
            /\ activeTab = (IF component = "Budget" THEN "budget" ELSE "goals")
  /\ formData \in FormInputs
  /\ refetches = 0
  /\ loading = FALSE
  /\ pc = "form"
  /\ hooks = <<>>
  /\ table = {} /\ nextId = 1 /\ calls = <<>>
  /\ EngineIdle /\ ServerIdle /\ GoalsIdle /\ SettingsIdle

FormFrame ==
  UNCHANGED <<component, activeTab, hooks, table, nextId,
              engineVars, serverVars, goalsVars, settingsVars>>

\* handleSubmit up to its first await: setLoading(true) and the update of
\* the edited record or the insert of a new one.
SubmitWrite(comp) ==
  /\ component = comp
  /\ pc = "form"
  /\ loading' = TRUE
  /\ calls' = <<NewCall(comp, IF editing # Null THEN "update" ELSE "insert",
                         IF editing # Null THEN editing.id ELSE 0, 0)>>
  /\ pc' = "writing"
  /\ UNCHANGED <<showForm, showTransactionForm, editing, formData, refetches>>
  /\ FormFrame

BudgetHandleSubmit == SubmitWrite("Budget")

GoalsHandleSubmit == SubmitWrite("Goals")

\* TransactionForm.handleSubmit up to its await: setLoading(true) and
\* addTransaction.
TransactionFormHandleSubmit ==
  /\ component = "TransactionForm"
  /\ pc = "form"
  /\ loading' = TRUE
  /\ calls' = <<NewCall("TransactionForm", "add", 0, 0)>>
  /\ pc' = "adding"
  /\ UNCHANGED <<showForm, showTransactionForm, editing, formData, refetches>>
  /\ FormFrame

\* The store answers the request that is under way, or the request is
\* rejected.
RequestSettles ==
  /\ \E i \in 1..Len(calls) : \E outcome \in {"ok", "error", "rejected"} :
       /\ calls[i].phase = "sent"
       /\ calls' = [calls EXCEPT ![i].phase = outcome]
  /\ UNCHANGED <<showForm, showTransactionForm, editing, formData, refetches, loading, pc>>
  /\ FormFrame

\* The continuation of the write: on an error the catch block and finally;
\* else fetchBudgets() or fetchGoals() is called and awaited.
WriteReturns ==
  /\ pc = "writing"
  /\ calls[1].phase \in {"ok", "error", "rejected"}
  /\ IF Saved(calls[1].phase)
       THEN /\ calls' = <<[calls[1] EXCEPT !.phase = "returned", !.result = "null"],
                          NewCall(component, "fetch", 0, 0)>>
            /\ refetches' = refetches + 1
            /\ pc' = "refetching"
            /\ UNCHANGED loading
       ELSE /\ calls' = [calls EXCEPT ![1].phase = "returned", ![1].result = "error"]
            /\ loading' = FALSE
            /\ pc' = "done"
            /\ UNCHANGED refetches
  /\ UNCHANGED <<showForm, showTransactionForm, editing, formData>>
  /\ FormFrame

\* The continuation of the refetch: fetchBudgets or fetchGoals ends with
\* setLoading(false); the form is closed and emptied; finally.  When the
\* select is rejected the catch block runs instead.
RefetchReturns ==
  /\ pc = "refetching"
  /\ calls[2].phase \in {"ok", "error", "rejected"}
  /\ calls' = [calls EXCEPT ![2].phase = "returned",
                             ![2].result = IF calls[2].phase = "ok" THEN "data" ELSE "error"]
  /\ IF calls[2].phase = "rejected"
       THEN UNCHANGED <<showForm, editing, formData>>
       ELSE /\ showForm' = FALSE
            /\ editing' = Null
            /\ formData' = EmptyForm
  /\ loading' = FALSE
  /\ pc' = "done"
  /\ UNCHANGED <<showTransactionForm, refetches>>
  /\ FormFrame

\* The continuation of await addTransaction: onClose() when no error was
\* returned; finally.
AddReturns ==
  /\ pc = "adding"
  /\ calls[1].phase \in {"ok", "error", "rejected"}
  /\ calls' = [calls EXCEPT ![1].phase = "returned",
                             ![1].result = IF calls[1].phase = "ok" THEN "data" ELSE "error"]
  /\ showTransactionForm' = ~Saved(calls[1].phase)
  /\ loading' = FALSE
  /\ pc' = "done"
  /\ UNCHANGED <<showForm, editing, formData, refetches>>
  /\ FormFrame

FormNext ==
  \/ BudgetHandleSubmit \/ GoalsHandleSubmit \/ TransactionFormHandleSubmit
  \/ RequestSettles \/ WriteReturns \/ RefetchReturns \/ AddReturns

FormSpec == FormInit /\ [][FormNext]_vars

\* Every request settles and every continuation runs.
FormFairSpec == FormSpec /\ WF_vars(FormNext)

(***************************************************************************)
(* Properties.                                                             *)
(***************************************************************************)
Responded == pc = "responded" /\ request.defect = "none"

HasInsight(list, title) == \E i \in 1..Len(list) : list[i].title = title

\* The input's totals, summed directly over the list.
RECURSIVE SumOfType(_, _)
SumOfType(list, type) ==
  IF list = <<>> THEN 0
  ELSE (IF Head(list).type = type THEN Head(list).amount ELSE 0)
         + SumOfType(Tail(list), type)

InputNet == SumOfType(transactions, "income") - SumOfType(transactions, "expense")

\* C1: in every response the Budget Alert ('Spending Exceeds Income') is
\* present exactly when the input's net income is negative and the Saving
\* Tip ('Great Saving Progress') exactly when it is positive; so the two
\* never appear together and neither appears when net income is 0.
C1_AlertAndTipFollowSign ==
  Responded =>
    /\ HasInsight(response.insights, "Spending Exceeds Income") <=> InputNet < 0
    /\ HasInsight(response.insights, "Great Saving Progress") <=> InputNet > 0
    /\ response.summary.netIncome = InputNet

\* C1 witness: a balanced budget with money moving, answered with neither.
C1_Witness ==
  /\ Responded
  /\ InputNet = 0
  /\ SumOfType(transactions, "income") > 0
  /\ ~HasInsight(response.insights, "Spending Exceeds Income")
  /\ ~HasInsight(response.insights, "Great Saving Progress")

ExpenseCount == Len(SelectSeq(transactions, IsExpense))

\* C2: conservation: the values of expensesByCategory sum to totalExpenses,
\* and so do the values of the per-day map dailyExpenses.
C2_Conservation ==
  Responded =>
    /\ SumValues(ObjectValues(expensesByCategory(request.transactions)))
         = response.summary.totalExpenses
    /\ SumValues(ObjectValues(dailyExpenses(request.transactions)))
         = response.summary.totalExpenses
    /\ response.summary.totalExpenses = SumOfType(transactions, "expense")

\* C2 witness: two categories and two days, one category fed by two expenses.
C2_Witness ==
  /\ Responded
  /\ Len(expensesByCategory(request.transactions)) = 2
  /\ Len(dailyExpenses(request.transactions)) = 2
  /\ ExpenseCount = 3
  /\ response.summary.totalExpenses > 2

AllInCurrentMonth == \A i \in 1..Len(transactions) : DayNumber(transactions[i].date[1]) >= 2

\* C3: called with timeframe 'month' on transactions of the current month,
\* the edge function and generateLocalInsights produce the same insight
\* list: the same insights in the same order with identical type, title,
\* description, severity and action_suggested.
C3_NetworkEqualsLocal ==
  (Responded /\ request.timeframe = "month" /\ AllInCurrentMonth) =>
    \A tz \in TzOffsets : response.insights = generateLocalInsights(transactions, tz)

\* C4: with no expense transaction the distinct expense-day count is 0, the
\* trend insight is not emitted, the engine answers 200 and no number of
\* the response is not-a-number.
C4_NoExpenseNoTrend ==
  (Responded /\ ExpenseCount = 0) =>
    /\ Len(ObjectKeys(dailyExpenses(request.transactions))) = 0
    /\ ~HasInsight(response.insights, "Increased Spending Detected")
    /\ response.status = 200
    /\ response.summary.totalExpenses = 0
    /\ response.summary.totalIncome \in Nat
    /\ response.summary.netIncome = response.summary.totalIncome
    /\ response.summary.savingsRate # "NaN"

\* C4 witness: an income-only list, whose daily average is 0/0.
C4_Witness ==
  /\ Responded
  /\ ExpenseCount = 0
  /\ SumOfType(transactions, "income") > 0
  /\ IsNaN(avgDailyExpense(request.transactions))
  /\ IsNaN(recentAvg(request.transactions))
  /\ ~HasInsight(response.insights, "Increased Spending Detected")

\* C5: the empty list is answered with status 200, no insight, a null
\* topExpenseCategory and the savings rate "0".
C5_EmptyList ==
  (Responded /\ transactions = <<>>) =>
    /\ response.status = 200
    /\ response.insights = <<>>
    /\ response.summary.topExpenseCategory = JsonNull
    /\ response.summary.savingsRate = "0"

\* C5 witness: the empty list has been answered.
C5_Witness == Responded /\ transactions = <<>> /\ response.insights = <<>>

InsightWithTitle(list, title) == list[CHOOSE i \in 1..Len(list) : list[i].title = title]

\* C6: when totalIncome is 0 the summary's savings rate is "0" and no Saving
\* Tip is emitted; if moreover totalExpenses > 0 the Budget Alert is present
\* and cites totalExpenses as the overspend.
C6_ZeroIncome ==
  (Responded /\ SumOfType(transactions, "income") = 0) =>
    /\ response.summary.savingsRate = "0"
    /\ ~HasInsight(response.insights, "Great Saving Progress")
    /\ SumOfType(transactions, "expense") > 0 =>
         /\ HasInsight(response.insights, "Spending Exceeds Income")
         /\ InsightWithTitle(response.insights, "Spending Exceeds Income").description
              = "You've spent $" \o NatToString(SumOfType(transactions, "expense"))
                  \o ".00 more than you earned this " \o request.timeframe \o "."

\* C6 witness: a zero-amount income next to a positive expense.
C6_Witness ==
  /\ Responded
  /\ \E i \in 1..Len(transactions) : transactions[i].type = "income"
  /\ SumOfType(transactions, "income") = 0
  /\ SumOfType(transactions, "expense") > 0
  /\ HasInsight(response.insights, "Spending Exceeds Income")

ExpenseDays == {DayNumber(transactions[i].date[1]) : i \in {j \in 1..Len(transactions) : transactions[j].type = "expense"}}

RECURSIVE DayTotal(_, _)
DayTotal(txs, d) ==
  IF txs = <<>> THEN 0
  ELSE (IF Head(txs).type = "expense" /\ DayNumber(Head(txs).date[1]) = d
          THEN Head(txs).amount ELSE 0) + DayTotal(Tail(txs), d)

RECURSIVE SumOverDays(_)
SumOverDays(days) ==
  IF days = {} THEN 0
  ELSE LET d == CHOOSE x \in days : TRUE
       IN DayTotal(transactions, d) + SumOverDays(days \ {d})

\* The lexicographically greatest min(3, k) expense days.
RecentDays == {d \in ExpenseDays : Cardinality({x \in ExpenseDays : x > d}) < 3}

\* C7: with k >= 1 expense days, Increased Spending Detected is emitted
\* exactly when 5 * k * S_recent > 6 * min(3, k) * S_all, S_recent being the
\* total of the greatest min(3, k) day keys and S_all the total of all; at
\* exact equality it is not emitted.
C7_TrendIffExactThreshold ==
  (Responded /\ ExpenseDays # {}) =>
    (HasInsight(response.insights, "Increased Spending Detected")
       <=> 5 * Cardinality(ExpenseDays) * SumOverDays(RecentDays)
             > 6 * Cardinality(RecentDays) * SumOverDays(ExpenseDays))

ExpenseCategories == {transactions[i].category : i \in {j \in 1..Len(transactions) : transactions[j].type = "expense"}}

RECURSIVE CategoryTotal(_, _)
CategoryTotal(txs, c) ==
  IF txs = <<>> THEN 0
  ELSE (IF Head(txs).type = "expense" /\ Head(txs).category = c
          THEN Head(txs).amount ELSE 0) + CategoryTotal(Tail(txs), c)

MaxCategoryTotal ==
  CHOOSE v \in {CategoryTotal(transactions, c) : c \in ExpenseCategories} :
    \A c \in ExpenseCategories : CategoryTotal(transactions, c) <= v

FirstSeen(c) == CHOOSE i \in 1..Len(transactions) :
  /\ transactions[i].type = "expense" /\ transactions[i].category = c
  /\ \A j \in 1..(i - 1) : ~(transactions[j].type = "expense" /\ transactions[j].category = c)

TopName == response.summary.topExpenseCategory[1]

MaximalCategories == {c \in ExpenseCategories : CategoryTotal(transactions, c) = MaxCategoryTotal}

\* C8: when several categories tie for the greatest total, the category
\* whose first expense comes earliest in the input is the top category.
C8_FirstSeenWinsTies ==
  (Responded /\ ExpenseCategories # {}) =>
    /\ response.summary.topExpenseCategory # JsonNull
    /\ TopName \in MaximalCategories
    /\ \A c \in MaximalCategories :
         FirstSeen(TopName) <= FirstSeen(c)

\* C9: the amount reported for the top category is the greatest of the
\* per-category totals, and summary.topExpenseCategory names a category
\* that attains it.
C9_TopIsMaximum ==
  (Responded /\ ExpenseCategories # {}) =>
    /\ response.summary.topExpenseCategory # JsonNull
    /\ TopName \in ExpenseCategories
    /\ CategoryTotal(transactions, TopName) = MaxCategoryTotal
    /\ response.insights[1].description
         = "Your highest expense category is " \o TopName
             \o " with $" \o NatToString(MaxCategoryTotal) \o ".00 spent this "
             \o request.timeframe \o "."

\* C9 witness: two categories with different totals, the greater one named.
C9_Witness ==
  /\ Responded
  /\ \E c \in ExpenseCategories : CategoryTotal(transactions, c) < MaxCategoryTotal
  /\ MaxCategoryTotal > 0
  /\ CategoryTotal(transactions, TopName) = MaxCategoryTotal

\* C10: Top Expense Category (spending_pattern, medium) is emitted exactly
\* when the input has at least one expense, zero amounts included, and
\* summary.topExpenseCategory is null exactly when it is not emitted.
C10_TopInsightIffExpense ==
  Responded =>
    /\ HasInsight(response.insights, "Top Expense Category") <=> ExpenseCount >= 1
    /\ response.summary.topExpenseCategory = JsonNull
         <=> ~HasInsight(response.insights, "Top Expense Category")
    /\ HasInsight(response.insights, "Top Expense Category") =>
         /\ InsightWithTitle(response.insights, "Top Expense Category").type = "spending_pattern"
         /\ InsightWithTitle(response.insights, "Top Expense Category").severity = "medium"

\* C10 witness: every expense amount is 0 and the insight is emitted.
C10_Witness ==
  /\ Responded
  /\ ExpenseCount >= 1
  /\ SumOfType(transactions, "expense") = 0
  /\ HasInsight(response.insights, "Top Expense Category")
  /\ response.summary.topExpenseCategory # JsonNull

\* C11: whenever the Budget Alert is emitted its severity is high and the
\* overspend it cites is totalExpenses - totalIncome, which is positive.
C11_AlertCitesOverspend ==
  (Responded /\ HasInsight(response.insights, "Spending Exceeds Income")) =>
    LET alert == InsightWithTitle(response.insights, "Spending Exceeds Income")
        overspend == SumOfType(transactions, "expense") - SumOfType(transactions, "income")
    IN /\ alert.severity = "high"
       /\ alert.type = "budget_alert"
       /\ overspend > 0
       /\ alert.description = "You've spent $" \o NatToString(Abs(overspend))
            \o ".00 more than you earned this " \o request.timeframe \o "."

\* C11 witness: an alert emitted with a positive income below the expenses.
C11_Witness ==
  /\ Responded
  /\ HasInsight(response.insights, "Spending Exceeds Income")
  /\ SumOfType(transactions, "income") > 0
  /\ SumOfType(transactions, "expense") > SumOfType(transactions, "income") + 1

\* C12: whenever the Saving Tip is emitted its severity is low and its
\* action is the advice to reach 20% exactly when 100 * netIncome is below
\* 20 * totalIncome, the praise otherwise, a rate of exactly 20% included.
C12_SavingTipAction ==
  /\ (Responded /\ HasInsight(response.insights, "Great Saving Progress")) =>
       LET tip == InsightWithTitle(response.insights, "Great Saving Progress")
       IN /\ tip.severity = "low"
          /\ tip.action_suggested =
               IF 100 * InputNet < 20 * SumOfType(transactions, "income")
                 THEN "Consider increasing your savings rate to 20% for better financial health."
                 ELSE "Keep up the excellent saving habits!"
  /\ (pc = "fallback" /\ HasInsight(insights, "Great Saving Progress")) =>
       LET tip == InsightWithTitle(insights, "Great Saving Progress")
           monthly == monthlyTransactions(transactions, tzOffset)
           income == SumOfType(monthly, "income")
       IN /\ tip.severity = "low"
          /\ tip.action_suggested =
               IF 100 * (income - SumOfType(monthly, "expense")) < 20 * income
                 THEN "Consider increasing your savings rate to 20% for better financial health."
                 ELSE "Keep up the excellent saving habits!"

\* C12 witness: a tip for a savings rate of exactly 20%, answered by praise.
C12_Witness ==
  /\ Responded
  /\ HasInsight(response.insights, "Great Saving Progress")
  /\ InputNet > 0
  /\ 100 * InputNet = 20 * SumOfType(transactions, "income")
  /\ InsightWithTitle(response.insights, "Great Saving Progress").action_suggested
       = "Keep up the excellent saving habits!"

RuleRank(title) ==
  CASE title = "Top Expense Category" -> 1
    [] title = "Spending Exceeds Income" -> 2
    [] title = "Great Saving Progress" -> 2
    [] title = "Increased Spending Detected" -> 3

\* C13: the insights come in the order of the rules: Top Expense Category,
\* then Budget Alert or Saving Tip, then Increased Spending Detected,
\* whatever their severities.
C13_RuleOrder ==
  Responded =>
    \A i, j \in 1..Len(response.insights) :
      i < j => RuleRank(response.insights[i].title) < RuleRank(response.insights[j].title)

\* C13 witness: a medium Top Expense Category, then the high Budget Alert,
\* then the trend insight.
C13_Witness ==
  /\ Responded
  /\ Len(response.insights) = 3
  /\ response.insights[1].severity = "medium"
  /\ response.insights[2].severity = "high"
  /\ response.insights[3].title = "Increased Spending Detected"

\* C14: the summary's totalIncome is the sum of the income amounts, its
\* totalExpenses the sum of the expense amounts, its netIncome their
\* difference, and both totals are non-negative.
C14_SummaryTotals ==
  Responded =>
    /\ response.summary.totalIncome = SumOfType(transactions, "income")
    /\ response.summary.totalExpenses = SumOfType(transactions, "expense")
    /\ response.summary.netIncome
         = response.summary.totalIncome - response.summary.totalExpenses
    /\ response.summary.totalIncome >= 0
    /\ response.summary.totalExpenses >= 0

\* C14 witness: incomes and expenses both present, with different totals.
C14_Witness ==
  /\ Responded
  /\ response.summary.totalIncome > 0
  /\ response.summary.totalExpenses > 0
  /\ response.summary.netIncome # 0
  /\ Len(transactions) = 3

\* C15: every request whose body lacks the expected shape (unparsable,
\* transactions missing or not a list, a transaction without type, category
\* or date, timeframe missing) is answered with status 500 and the body
\* { error: 'Failed to generate insights' }, never with 200 and insights.
C15_MalformedRejected ==
  (pc = "responded" /\ request.defect # "none") =>
    response = [status |-> 500, error |-> "Failed to generate insights"]

\* The response to the request's transactions under another timeframe.
ResponseUnder(timeframe) == Respond(Body("none", request.transactions, timeframe))

\* C16: for the same transactions and any two timeframes the engine returns
\* the same summary and insight lists of the same length that agree, entry
\* by entry, on type, title, severity and action_suggested.
C16_TimeframeNonInterference ==
  Responded =>
    \A tf \in Timeframes :
      LET other == ResponseUnder(tf)
      IN /\ other.status = response.status
         /\ other.summary = response.summary
         /\ Len(other.insights) = Len(response.insights)
         /\ \A i \in 1..Len(response.insights) :
              /\ other.insights[i].type = response.insights[i].type
              /\ other.insights[i].title = response.insights[i].title
              /\ other.insights[i].severity = response.insights[i].severity
              /\ other.insights[i].action_suggested = response.insights[i].action_suggested

\* C16 witness: a response for 'year' with several insights whose wording
\* differs from the response for 'week'.
C16_Witness ==
  /\ Responded
  /\ request.timeframe = "year"
  /\ Len(response.insights) >= 2
  /\ HasInsight(response.insights, "Great Saving Progress")
  /\ ResponseUnder("week").insights[1].description # response.insights[1].description
  /\ ResponseUnder("week").summary = response.summary

RequestSent == network # "idle"

\* C17: generateInsights sends, under the timeframe 'month', only
\* transactions dated within the current month.
C17_CallerSendsCurrentMonthOnly ==
  (RequestSent /\ request.timeframe = "month") =>
    \A i \in 1..Len(request.transactions) :
      DayNumber(request.transactions[i].date[1]) >= 2

RequestFailed ==
  \/ network \in {"rejected", "badBody"}
  \/ response # Null /\ response.status # 200

CallerSafety ==
  /\ fetches <= 1
  /\ fallbacks <= 1
  /\ (transactions # <<>> /\ pc # "mounted") => fetches = 1
  /\ (transactions # <<>> /\ pc = "done") =>
       fallbacks = (IF RequestFailed THEN 1 ELSE 0)
  /\ (pc = "done" /\ ~RequestFailed /\ transactions # <<>>) =>
       insights = response.insights
  /\ pc = "done" => loading = FALSE

\* C18: an invocation of generateInsights on a non-empty list issues exactly
\* one request; if the request throws, is answered with a non-ok status or
\* with a body that cannot be parsed, the fallback runs exactly once and no
\* second request is issued; if it succeeds the fallback does not run; and
\* loading is eventually false.
C18_OneRequestOneFallback == [](CallerSafety) /\ <>(pc = "done" /\ loading = FALSE)

\* C18 witness: a 200 response whose body could not be parsed, handled by
\* one run of the fallback after one request.
C18_Witness ==
  /\ pc = "done"
  /\ network = "badBody"
  /\ response.status = 200
  /\ fetches = 1
  /\ fallbacks = 1
  /\ insights # <<>>
  /\ loading = FALSE

Min(a, b) == IF a < b THEN a ELSE b

\* C19: the list sent to the engine has at most 100 records and is the
\* first min(100, n) records of the hook's list, in their order.
C19_RequestIsFirstHundred ==
  RequestSent =>
    /\ Len(request.transactions) <= 100
    /\ Len(request.transactions) = Min(100, Len(transactions))
    /\ \A i \in 1..Len(request.transactions) : request.transactions[i] = transactions[i]

\* C19 witness: a list of more than 100 records was cut to 100.
C19_Witness ==
  /\ RequestSent
  /\ Len(transactions) > 100
  /\ Len(request.transactions) = 100
  /\ request.transactions[100] = transactions[100]

ExpenseDayKeys == {transactions[i].date[1] : i \in {j \in 1..Len(transactions) : transactions[j].type = "expense"}}

KeysOf(obj) == {obj[i][1] : i \in 1..Len(obj)}

\* C20: every key of expensesByCategory is the category of an expense of the
\* input and every key of the per-day map the date portion of one; incomes
\* add no key and no amount, and summary.topExpenseCategory is never a
\* category found on incomes only.
C20_KeysFromExpensesOnly ==
  Responded =>
    /\ KeysOf(expensesByCategory(request.transactions)) = ExpenseCategories
    /\ KeysOf(dailyExpenses(request.transactions)) = ExpenseDayKeys
    /\ \A c \in ExpenseCategories :
         \E i \in 1..Len(expensesByCategory(request.transactions)) :
           expensesByCategory(request.transactions)[i]
             = <<c, CategoryTotal(transactions, c)>>
    /\ \A d \in ExpenseDayKeys :
         \E i \in 1..Len(dailyExpenses(request.transactions)) :
           dailyExpenses(request.transactions)[i]
             = <<d, DayTotal(transactions, DayNumber(d))>>
    /\ response.summary.topExpenseCategory # JsonNull => TopName \in ExpenseCategories

\* C20 witness: an income whose category and day occur on no expense, next
\* to an expense that is named top category.
C20_Witness ==
  /\ Responded
  /\ ExpenseCount >= 1
  /\ \E i \in 1..Len(transactions) :
       /\ transactions[i].type = "income"
       /\ transactions[i].amount > 0
       /\ transactions[i].category \notin ExpenseCategories
       /\ transactions[i].date[1] \notin ExpenseDayKeys
  /\ response.summary.topExpenseCategory # JsonNull
  /\ TopName \in ExpenseCategories

\* C21: with non-negative amounts, whenever the Saving Tip is emitted the
\* divisor totalIncome of savingsRate is greater than 0 and the rate is a
\* number greater than 0 and at most 100.
C21_SavingsRateInRange ==
  (Responded /\ HasInsight(response.insights, "Great Saving Progress")) =>
    LET rate == savingsRate(request.transactions)
    IN /\ totalIncome(request.transactions) > 0
       /\ SumOfType(transactions, "income") > 0
       /\ ~IsNaN(rate)
       /\ F64Gt(rate, F64Zero)
       /\ ~F64Gt(rate, F64FromInt(100))
       /\ InsightWithTitle(response.insights, "Great Saving Progress").description
            = "You saved " \o ToFixed(rate, 1) \o "% of your income this "
                \o request.timeframe \o "!"

\* The tip is emitted at the upper end of the range: no expense at all, so
\* the rate is exactly 100.
C21_Witness ==
  /\ Responded
  /\ HasInsight(response.insights, "Great Saving Progress")
  /\ SumOfType(transactions, "expense") = 0
  /\ SumOfType(transactions, "income") > 0
  /\ F64Cmp(savingsRate(request.transactions), F64FromInt(100)) = 0

\* C23: with non-negative amounts and at most 3 distinct expense days the
\* recent mean equals the mean over all days, so 'Increased Spending
\* Detected' is not emitted; it appears only with at least 4 distinct expense
\* days whose total is positive.
C23_NoTrendUpToThreeDays ==
  /\ (Responded /\ ExpenseDays # {} /\ Cardinality(ExpenseDays) <= 3) =>
       /\ F64Cmp(recentAvg(request.transactions),
                 avgDailyExpense(request.transactions)) = 0
       /\ ~HasInsight(response.insights, "Increased Spending Detected")
  /\ (Responded /\ HasInsight(response.insights, "Increased Spending Detected")) =>
       /\ Cardinality(ExpenseDays) >= 4
       /\ SumOverDays(ExpenseDays) > 0

\* Three expense days with different totals, the latest two being the
\* largest, and no trend insight.
C23_Witness ==
  /\ Responded
  /\ Cardinality(ExpenseDays) = 3
  /\ \E d \in ExpenseDays :
       /\ \A e \in ExpenseDays : d <= e
       /\ \A e \in ExpenseDays \ {d} : DayTotal(transactions, d) < DayTotal(transactions, e)
  /\ ~HasInsight(response.insights, "Increased Spending Detected")

SharedTitles == {"Top Expense Category", "Spending Exceeds Income", "Great Saving Progress"}

\* The insights of the three rules that the engine and the fallback share.
SharedInsights(list) ==
  LET IsShared(i) == i.title \in SharedTitles
  IN SelectSeq(list, IsShared)

\* Two insights of the same shared rule agree: same type, title, severity
\* and action; the same amounts in the text, and for the top category the
\* same category and amount behind the two wordings.
SameSharedInsight(e, l) ==
  /\ e.type = l.type
  /\ e.title = l.title
  /\ e.severity = l.severity
  /\ e.action_suggested = l.action_suggested
  /\ IF e.title = "Top Expense Category"
       THEN \E c \in ExpenseCategories : \E a \in 0..SumOfType(transactions, "expense") :
              /\ e.description = TopCategoryInsight(<<c, a>>, "month").description
              /\ l.description = LocalTopCategoryInsight(<<c, a>>).description
       ELSE e.description = l.description

\* C24: for transactions all dated in the current month, the fallback's
\* insights and the engine's insights of the three shared rules are the
\* same: emitted under the same conditions, in the same order, with the same
\* type, title, severity, action, top category and amounts.
C24_SharedRulesAgree ==
  (pc = "fallback" /\ AllInCurrentMonth) =>
    LET engine == SharedInsights(EngineInsights(transactions, "month"))
        local == SharedInsights(insights)
    IN /\ Len(engine) = Len(local)
       /\ \A i \in 1..Len(engine) : SameSharedInsight(engine[i], local[i])

\* The agreement holds where local midnight is not later than UTC midnight.
C24_AgreeEastOfGreenwich == (tzOffset >= 0) => C24_SharedRulesAgree

\* C22: invocations of the edge function are independent: under every
\* interleaving of two concurrent requests each response is the response
\* the request gets when it is the only one, whatever was served before.
C22_InvocationsIndependent ==
  \A i \in 1..Len(invocations) :
    invocations[i].phase = "responded" =>
      invocations[i].response = Respond(invocations[i].body)

\* Two different requests overlapped: the one that arrived first was
\* answered last, and both answers carry insights.
C22_Witness ==
  /\ Len(invocations) = 2
  /\ invocations[1].phase = "responded"
  /\ invocations[2].phase = "responded"
  /\ invocations[1].body # invocations[2].body
  /\ invocations[1].response.status = 200
  /\ invocations[2].response.status = 200
  /\ invocations[1].response.insights # <<>>
  /\ served = invocations[2].response.insights \o invocations[1].response.insights
  /\ served # invocations[1].response.insights \o invocations[2].response.insights

\* Call i returns in this step.
Returns(i) == calls[i].phase \in {"ok", "error"} /\ calls'[i].phase = "returned"

\* The records of a list whose id is not id, in order.
Others(list, id) ==
  LET Other(t) == t.id # id
  IN SelectSeq(list, Other)

\* C25: when the store answers an add, update or delete with an error the
\* list is unchanged and the call returns the error; after a success add
\* puts the stored record in front, update replaces exactly the records of
\* that id, delete removes exactly those, and the other records keep their
\* order; the list is changed by nothing but a fetch or such a success.
C25_ListFollowsStore ==
  [][/\ \A i \in 1..Len(calls) :
          (calls[i].op # "fetch" /\ Returns(i) /\ calls[i].inst \in DOMAIN hooks) =>
            LET prev == hooks[calls[i].inst].transactions
                next == hooks'[calls[i].inst].transactions
            IN IF calls[i].phase = "error"
                 THEN hooks' = hooks /\ calls'[i].result = "error"
                 ELSE /\ calls'[i].result # "error"
                      /\ CASE calls[i].op = "add" ->
                                /\ Len(next) = Len(prev) + 1
                                /\ Head(next) = calls[i].data[1]
                                /\ Tail(next) = prev
                           [] calls[i].op = "update" ->
                                /\ Len(next) = Len(prev)
                                /\ \A k \in 1..Len(prev) :
                                     next[k] = IF prev[k].id = calls[i].id
                                                 THEN calls[i].data[1] ELSE prev[k]
                           [] calls[i].op = "delete" ->
                                /\ \A k \in 1..Len(next) : next[k].id # calls[i].id
                                /\ next = Others(prev, calls[i].id)
     /\ \A inst \in DOMAIN hooks \cap DOMAIN hooks' :
          hooks'[inst].transactions # hooks[inst].transactions =>
            \E i \in 1..Len(calls) :
              Returns(i) /\ calls[i].inst = inst /\ calls[i].phase = "ok"]_vars

\* TransactionList holds two records; an update of one has succeeded and
\* left the other in place, and a delete has returned an error.
C25_Witness ==
  /\ "TransactionList" \in DOMAIN hooks
  /\ Len(hooks["TransactionList"].transactions) = 2
  /\ \E i, j \in 1..Len(calls) :
       /\ calls[i].op = "update" /\ calls[i].result = "data"
       /\ calls[j].op = "delete" /\ calls[j].result = "error"
       /\ \E k \in 1..2 :
            /\ hooks["TransactionList"].transactions[k] = calls[i].data[1]
            /\ hooks["TransactionList"].transactions[3 - k].amount \notin UpdateAmounts

C27_AddChangesOwnListOnly ==
  [][\A i \in 1..Len(calls) :
       (calls[i].op = "add" /\ calls[i].inst = "TransactionForm"
          /\ calls[i].phase = "ok" /\ Returns(i)) =>
         /\ \A o \in DOMAIN hooks \ {"TransactionForm"} :
              o \in DOMAIN hooks' /\ hooks'[o] = hooks[o]
         /\ "TransactionForm" \in DOMAIN hooks =>
              hooks'["TransactionForm"].transactions
                = <<calls[i].data[1]>> \o hooks["TransactionForm"].transactions]_vars

\* The form's instance holds the added record, the store holds it, and the
\* list of the active tab, fetched before, does not.
C27_Witness ==
  /\ showTransactionForm
  /\ \E i \in 1..Len(calls) :
       /\ calls[i].op = "add" /\ calls[i].result = "data"
       /\ calls[i].data[1] \in table
       /\ hooks["TransactionForm"].transactions # <<>>
       /\ Head(hooks["TransactionForm"].transactions) = calls[i].data[1]
       /\ ~hooks[TabComponent(activeTab)].loading
       /\ hooks[TabComponent(activeTab)].transactions # <<>>
       /\ \A k \in 1..Len(hooks[TabComponent(activeTab)].transactions) :
            hooks[TabComponent(activeTab)].transactions[k] # calls[i].data[1]

\* Every request has been answered without an error and every call has
\* returned.
AllReturnedWithoutError ==
  \A i \in 1..Len(calls) : calls[i].phase = "returned" /\ calls[i].result # "error"

\* C28: an add-amount action sends an update only for an amount greater
\* than 0, and after two of them, with amounts a and b, on the same goal
\* the stored current_amount ends at the initial amount + a + b, however
\* the updates and the refetches are interleaved.
C28_NoLostUpdate ==
  /\ Len(entered) = Cardinality({i \in 1..Len(calls) : calls[i].op = "update"})
  /\ \A k \in 1..Len(entered) : entered[k] > 0
  /\ (Len(entered) = 2 /\ AllReturnedWithoutError) =>
       \A r \in table : r.current_amount = InitialGoal.current_amount + entered[1] + entered[2]

\* The second amount is added after the refetch of the first has been
\* rendered: then the stored amount is the sum.
C28_SequentialAddsSum ==
  (/\ Len(entered) = 2 /\ AllReturnedWithoutError
   /\ \E i, j \in 1..Len(calls) :
        /\ i < j
        /\ calls[i].op = "update" /\ calls[j].op = "update"
        /\ calls[j].amount = calls[i].amount + entered[2]) =>
    \A r \in table : r.current_amount = InitialGoal.current_amount + entered[1] + entered[2]

\* Nothing is deleted and nobody is signed out without the exact answer;
\* signOut is called only when the three deletes are fulfilled, so not
\* when one of them is rejected; a finished handler leaves loading false.
DeleteAccountSafety ==
  /\ confirmation # JsonString("DELETE") =>
       /\ \A t \in UserTables : deletes[t] = "none"
       /\ signOut = "none"
       /\ loading = FALSE
  /\ signOut # "none" => \A t \in UserTables : deletes[t] \in {"fulfilled", "failed"}
  /\ (\E t \in UserTables : deletes[t] = "rejected") => signOut = "none"
  /\ pc = "done" => loading = FALSE

\* C29: handleDeleteAccount sends no delete request and does not call
\* signOut unless the prompt's answer is exactly 'DELETE'; signOut is called
\* only after the three deletes have settled and not when awaiting them
\* throws; and on every path the handler ends with loading false.
C29_DeleteOnlyWhenConfirmed ==
  /\ [](DeleteAccountSafety)
  /\ <>(pc = "done" /\ loading = FALSE)

\* The path through the catch block: one delete rejected while another is
\* still under way, no signOut, loading back to false.
C29_Witness ==
  /\ pc = "done"
  /\ confirmation = JsonString("DELETE")
  /\ \E t, u \in UserTables : deletes[t] = "rejected" /\ deletes[u] = "sent"
  /\ signOut = "none"
  /\ loading = FALSE

\* A closed form has a write that returned without an error; a finished
\* submit leaves loading false.
FormSafety ==
  /\ (component \in {"Budget", "Goals"} /\ ~showForm) =>
       calls # <<>> /\ calls[1].op \in {"insert", "update"} /\ calls[1].result = "null"
  /\ (component = "TransactionForm" /\ ~showTransactionForm) =>
       calls # <<>> /\ calls[1].op = "add" /\ calls[1].result = "data"
  /\ pc = "done" => loading = FALSE

\* The step in which a failed write returns changes nothing of the form
\* and sends no refetch.
FailedWriteKeepsForm ==
  (/\ calls # <<>>
   /\ calls[1].phase \in {"error", "rejected"}
   /\ calls'[1].phase = "returned") =>
     /\ UNCHANGED <<showForm, showTransactionForm, editing, formData, refetches>>
     /\ refetches' = 0
     /\ Len(calls') = 1
     /\ calls'[1].result = "error"
     /\ IF component = "TransactionForm" THEN showTransactionForm' ELSE showForm'

\* C30: a submit closes the form only when the store write succeeded: on a
\* store error Budget.handleSubmit and Goals.handleSubmit leave showForm,
\* the edited record and the form fields as they are and do not refetch;
\* TransactionForm calls onClose only when addTransaction returned no
\* error; and in all three loading is false again at the end, on the
\* success path and on the error path.
C30_FormClosesOnlyOnSuccess ==
  /\ [](FormSafety)
  /\ [][FailedWriteKeepsForm]_vars
  /\ <>(pc = "done" /\ loading = FALSE)

\* Goals: the update of an edited goal failed; the form is still open with
\* its fields and its record, nothing was refetched, loading is false.
C30_Witness ==
  /\ component = "Goals"
  /\ pc = "done"
  /\ calls[1].op = "update" /\ calls[1].result = "error"
  /\ showForm
  /\ editing # Null
  /\ formData.amount = "25"
  /\ refetches = 0
  /\ loading = FALSE

====
